---- MODULE Spec2Model ----
(***************************************************************************)
(* Quiz session engine of quiz-server: QuizzesService (store operations),  *)
(* TugOfWarService (score engine) and QuizGateway (question timers, room   *)
(* broadcasts).  Every `await` of the source is a suspension point: a      *)
(* service call is a sequence of store operations, one action each, and a  *)
(* gateway handler alternates store operations with the synchronous        *)
(* continuation that touches the gateway's in-memory maps.                 *)
(***************************************************************************)
EXTENDS Integers, Sequences, FiniteSets, TLC

(***************************************************************************)
(* Bounds of the model.                                                    *)
(***************************************************************************)
NumQuestions == 2        \* questions of the quiz, indices 0..NumQuestions-1
NumOptions == 2          \* answer options per question
NumParticipants == 2     \* joined participants, alternating teams
TimeSeconds == 1         \* timeSeconds of every question
MaxSubmitCalls == 2      \* submitAnswer calls in flight at once
MaxAnswers == 2          \* then only calls for an answered pair begin
MaxStartQuizCalls == 1   \* startQuiz calls in flight at once
MaxFinishQuizCalls == 1  \* HTTP finishQuiz calls in flight at once
MaxDeleteQuizCalls == 1  \* deleteQuiz calls in flight at once
MaxJoinCalls == 2        \* joinQuiz calls in flight at once
MaxNames == 2            \* display names a joinQuiz may give
MaxJoined == 3           \* then only calls with a taken name begin
MaxCreateCalls == 2      \* createQuiz calls in flight at once
MaxQuizRows == 2         \* then no createQuiz call begins

(***************************************************************************)
(* Identities.  One quiz, created by Creator, joined by the participants.  *)
(***************************************************************************)
QuizId == "quiz1"
NoQuiz == "noquiz"
Pin == "111111"
BadPin == "000000"
Creator == "teacher1"
Other == "teacher2"
\* The status that stands for the quiz having no row in the store.
Removed == "removed"

QuestionIds == 0 .. (NumQuestions - 1)      \* question id = its index (order)
NoQuestion == NumQuestions                  \* an id no question has
\* A question row of another quiz whose createQuiz stopped before it set
\* correctAnswerId: it has its options and no correct one.
DraftQuestion == NumQuestions + 1
\* The question rows in the store: findOne({id}) resolves any of them.
\* A question row of another quiz, complete: it has its options and the
\* first of them is the correct one.
ForeignQuestion == NumQuestions + 2
StoredQuestions == QuestionIds \cup {DraftQuestion, ForeignQuestion}
ParticipantIds == 1 .. NumParticipants
NoParticipant == 0                          \* an id no participant has
\* A participant of another quiz, joined under that quiz's PIN.
ForeignParticipant == NumParticipants + 1
OtherQuiz == "quiz2"
OtherPin == "222222"
\* Question.quizId.
QuizOfQuestion(q) == IF q \in QuestionIds THEN QuizId ELSE OtherQuiz

\* AnswerOption ids: option `o` (order 1..NumOptions) of question q.
OptionId(q, o) == q * NumOptions + o
Options(q) == { OptionId(q, o) : o \in 1 .. NumOptions }
\* Question.correctAnswerId: the option with order 1; null on the draft.
NoOption == 0
correctAnswerId(q) == IF q = DraftQuestion THEN NoOption ELSE OptionId(q, 1)
\* An option id that belongs to no question of the quiz.
ForeignOption == OptionId(NumQuestions, 1)
\* The option ids a client may send.
OptionIds == UNION { Options(q) : q \in QuestionIds \cup {DraftQuestion} } \cup {ForeignOption}
\* responseTimeMs values a client may send.
ResponseTimes == {0, 900}

\* Participant rows as joinQuiz stores them; team alternates 1, 2, 1, ...
\* and each participant has a display name of its own.
Team(p) == ((p - 1) % 2) + 1
ParticipantRow(p) ==
  [id |-> p, name |-> p, team |-> Team(p), pin |-> Pin, quizId |-> QuizId]
ForeignRow ==
  [id |-> ForeignParticipant, name |-> 1, team |-> 1, pin |-> OtherPin, quizId |-> OtherQuiz]

VARIABLES
  status,              \* Quiz.status of the quiz in the store
  participants,        \* Participant rows in the store
  answers,             \* Answer rows in the store
  questionTimeCache,   \* TugOfWarService.questionTimeCache entry of the quiz
  submitCalls,         \* QuizzesService.submitAnswer calls in flight
  startQuizCalls,      \* QuizzesService.startQuiz calls in flight
  finishQuizCalls,     \* QuizzesService.finishQuiz calls made over HTTP
  deleteQuizCalls,     \* QuizzesService.deleteQuiz calls in flight
  joinCalls,           \* QuizzesService.joinQuiz calls in flight
  quizRows,            \* Quiz rows that createQuiz stored, with their questions
  createCalls,         \* QuizzesService.createQuiz calls in flight
  now,                 \* Date.now(), in seconds
  clientData,          \* every socket: client.data, its rooms, its entries in
                       \* pinRooms and clientLastActivity, its join-quiz in flight
  questionStartTimes,  \* QuizGateway.questionStartTimes entry of the quiz
  questionTimers,      \* QuizGateway.questionTimers entry of the quiz
  timeouts,            \* setTimeout timers scheduled and not yet fired or cleared
  autoAdvanceCalls,    \* autoAdvanceQuestion handlers in flight
  startQuestionCalls,  \* handleStartQuestion handlers in flight
  finishQuestionCalls, \* handleFinishQuestion handlers in flight
  finishQuizEvents,    \* handleFinishQuiz handlers in flight
  room,                \* events broadcast to room quiz-<pin>, oldest first
  requests             \* gateway requests received so far

storeVars == <<status, participants, answers, questionTimeCache>>
\* participantRepository.find({where: {quizId}}).
QuizParticipants == { r \in participants : r.quizId = QuizId }
serviceVars == <<submitCalls, startQuizCalls, finishQuizCalls, deleteQuizCalls,
                 joinCalls>>
gatewayVars == <<now, clientData, questionStartTimes, questionTimers, timeouts,
                 autoAdvanceCalls, startQuestionCalls, finishQuestionCalls,
                 finishQuizEvents, room, requests>>
createVars == <<quizRows, createCalls>>
vars == <<storeVars, serviceVars, gatewayVars, createVars>>

\* A call slot: idle, in flight (pc names the store operation it waits for),
\* or done, holding what the call returned until the slot is used again.
Idle == [pc |-> "idle"]
Done(r) == [pc |-> "done", result |-> r]
Free(call) == call.pc \in {"idle", "done"}
\* Slots are taken in order: slot c is used only while every lower one is busy.
LowerBusy(calls, c) == \A d \in DOMAIN calls : d < c => ~Free(calls[d])
NoCache == <<>>

(***************************************************************************)
(* TugOfWarService: the score engine.  Numbers are integers: response      *)
(* times in ms, average speed in hundredths of a second, position in       *)
(* hundredths.  Math.round(x) is floor(x + 1/2).                           *)
(***************************************************************************)
RECURSIVE SumResponseTime(_)
SumResponseTime(S) ==
  IF S = {} THEN 0
  ELSE LET a == CHOOSE x \in S : TRUE
       IN a.responseTimeMs + SumResponseTime(S \ {a})

\* getAverageQuestionTime: <<sum of timeSeconds, number of questions>>, the
\* average kept as a fraction.
AverageQuestionTime == <<NumQuestions * TimeSeconds, NumQuestions>>

\* An average speed without the cut at 0 (line 59): what C24 rules out.
calculateAverageSpeed_Signed(S, avg) ==
  IF S = {} THEN 0
  ELSE LET n == Cardinality(S)
           num == 1000 * avg[1] * n - SumResponseTime(S) * avg[2]
       IN IF num >= 0 THEN (2 * num + 10 * n * avg[2]) \div (20 * n * avg[2])
          ELSE -((10 * n * avg[2] - 2 * num) \div (20 * n * avg[2]))

\* calculateAverageSpeed, in hundredths of a second.  avg is the fraction
\* <<t, l>> of seconds: maxTimeMs = 1000 * t / l.
calculateAverageSpeed(S, avg) ==
  IF S = {} THEN 0
  ELSE LET n == Cardinality(S)
           t == avg[1]
           l == avg[2]
           \* (maxTimeMs - averageTimeSpentMs) * n * l, cut at 0
           num == 1000 * t * n - SumResponseTime(S) * l
           speed == IF num > 0 THEN num ELSE 0
       IN (2 * speed + 10 * n * l) \div (20 * n * l)

\* calculateTeamScore: round(correct * 50 + averageSpeed * 10).
calculateTeamScore(correct, speed100) ==
  (500 * correct + speed100 + 5) \div 10

calculateCorrectAnswers(S) == Cardinality({a \in S : a.isCorrect})

Sign(x) == IF x > 0 THEN 1 ELSE IF x < 0 THEN -1 ELSE 0
Min(a, b) == IF a < b THEN a ELSE b
Max(a, b) == IF a > b THEN a ELSE b

\* round2(100 * normalizedRatio^0.7) in hundredths, normalizedRatio =
\* min(1, (ratio - 0.5) / 0.25) = min(1, num / total) with num = 2 max -
\* 2 min.  Exact at both ends, the rounding to two decimals (line 116)
\* included: 10000 when normalizedRatio = 1 or 100 x^0.7 >= 99.995, which is
\* x >= 0.99995^(10/7) = 1 - 1/14000.150003.., that is total / (total - num)
\* > 14000.15; 0 when the scores are equal or 100 x^0.7 < 0.005, which is
\* x < 0.00005^(10/7) = 1/1394211.1937023.., that is total / num >
\* 1394211.1937.  (Both agree with the floating-point code for scores
\* below 5 * 10^7.)  Between the ends x^0.7 is not an integer expression:
\* the value 100 * normalizedRatio (below x^0.7 on (0,1), and monotone like
\* it) stands for it, kept inside 1..9999.
ScaledPower(maxScore, minScore) ==
  LET total == maxScore + minScore
      num == 2 * maxScore - 2 * minScore
      short == total - num
  IN IF num = 0 THEN 0
     ELSE IF num >= total THEN 10000
     ELSE IF /\ short <= total \div 14000
             /\ 20 * (total - 14000 * short) > 3 * short
          THEN 10000
     ELSE IF \/ total \div num > 1394211
             \/ total \div num = 1394211 /\ 10000 * (total % num) > 1937 * num
          THEN 0
     ELSE Max(1, Min(9999, IF num <= 200000 THEN (10000 * num) \div total
                           ELSE num \div ((total \div 10000) + 1)))

\* A rope that would move by the difference of the scores, unscaled: what
\* C19 rules out.
updateTugPosition_Unscaled(team1Score, team2Score, hasAnswers) ==
  IF ~hasAnswers \/ team1Score + team2Score = 0
  THEN [position |-> 0, team1Score |-> 0, team2Score |-> 0, hasAnswers |-> FALSE]
  ELSE [position |-> 10000 * (team1Score - team2Score),
        team1Score |-> team1Score, team2Score |-> team2Score, hasAnswers |-> TRUE]

\* A rope that would report the scores and the answers it was given even
\* when the scores sum to 0: what C20 rules out.
updateTugPosition_KeepsFlag(team1Score, team2Score, hasAnswers) ==
  [position |-> 0, team1Score |-> team1Score, team2Score |-> team2Score,
   hasAnswers |-> hasAnswers]

\* A rope without the limit of 75 for a team that has no score: what C21
\* rules out.
updateTugPosition_Uncapped(team1Score, team2Score, hasAnswers) ==
  IF ~hasAnswers \/ team1Score + team2Score = 0
  THEN [position |-> 0, team1Score |-> 0, team2Score |-> 0, hasAnswers |-> FALSE]
  ELSE [position |-> Sign(team1Score - team2Score)
                       * ScaledPower(Max(team1Score, team2Score),
                                     Min(team1Score, team2Score)),
        team1Score |-> team1Score, team2Score |-> team2Score, hasAnswers |-> TRUE]

\* updateTugPosition.
updateTugPosition(team1Score, team2Score, hasAnswers) ==
  LET totalScore == team1Score + team2Score
      scoreDiff == team1Score - team2Score
      minScore == Min(team1Score, team2Score)
      maxScore == Max(team1Score, team2Score)
      rawPosition == IF minScore = 0 /\ maxScore > 0
                     THEN Sign(scoreDiff) * 7500
                     ELSE Sign(scoreDiff) * ScaledPower(maxScore, minScore)
  IN IF ~hasAnswers \/ totalScore = 0
     THEN [position |-> 0, team1Score |-> 0, team2Score |-> 0, hasAnswers |-> FALSE]
     ELSE [position |-> Max(-10000, Min(10000, rawPosition)),
           team1Score |-> team1Score, team2Score |-> team2Score,
           hasAnswers |-> TRUE]

\* calculateTugPosition over the participant rows `ps` read first and the
\* answer rows `as` read last.
\* The answers of team t among the participants `ps` (lines 174-190).
TeamAnswers(ps, as, t) ==
  { a \in as : \E m \in ps : m.team = t /\ m.id = a.participantId }
\* The score of team t (lines 196-203).
TeamScore(ps, as, avg, t) ==
  calculateTeamScore(calculateCorrectAnswers(TeamAnswers(ps, as, t)),
                     calculateAverageSpeed(TeamAnswers(ps, as, t), avg))

calculateTugPosition(ps, as, avg) ==
  IF ps = {} THEN [position |-> 0, team1Score |-> 0, team2Score |-> 0, hasAnswers |-> FALSE]
  ELSE LET ids == { p.id : p \in ps }
           allAnswers == { a \in as : a.participantId \in ids }
       IN updateTugPosition(TeamScore(ps, allAnswers, avg, 1),
                            TeamScore(ps, allAnswers, avg, 2), allAnswers # {})

Abs(x) == IF x < 0 THEN -x ELSE x

(***************************************************************************)
(* QuizzesService.startQuiz(quizId, userId).                               *)
(***************************************************************************)
\* A startQuiz that would not look at the status: what C9 rules out.
StartQuizCheck_AnyStatus(quizId, userId, st) ==
  IF quizId # QuizId \/ st = Removed THEN "NotFound"
  ELSE IF userId # Creator THEN "Forbidden"
  ELSE "ok"

\* The checks after the first read (lines 178-188): the error it throws, or
\* "ok".
StartQuizCheck(quizId, userId, st) ==
  IF quizId # QuizId \/ st = Removed THEN "NotFound"
  ELSE IF userId # Creator THEN "Forbidden"
  ELSE IF st # "created" THEN "InvalidState"
  ELSE "ok"

\* findOne (line 168) and the checks.
StartQuizRead(c, quizId, userId) ==
  /\ Free(startQuizCalls[c])
  /\ LowerBusy(startQuizCalls, c)
  /\ LET r == StartQuizCheck(quizId, userId, status)
     IN startQuizCalls' = [startQuizCalls EXCEPT ![c] =
          IF r = "ok"
          THEN [pc |-> "save", quizId |-> quizId, userId |-> userId, read |-> status]
          ELSE [pc |-> "done", result |-> r, quizId |-> quizId, userId |-> userId,
                read |-> status]]
  /\ UNCHANGED <<storeVars, submitCalls, finishQuizCalls, deleteQuizCalls, joinCalls, gatewayVars, createVars>>

\* quiz.status = STARTED; save(quiz) (lines 190-191).
StartQuizSave(c) ==
  /\ startQuizCalls[c].pc = "save"
  /\ status' = "started"
  /\ startQuizCalls' = [startQuizCalls EXCEPT ![c].pc = "reload"]
  /\ UNCHANGED <<participants, answers, questionTimeCache, submitCalls,
                 finishQuizCalls, deleteQuizCalls, joinCalls, gatewayVars, createVars>>

\* The second findOne (line 194): the quiz returned to the caller, or
\* NotFound when its row is gone (lines 204-206).
StartQuizReload(c) ==
  /\ startQuizCalls[c].pc = "reload"
  /\ startQuizCalls' = [startQuizCalls EXCEPT ![c] =
       [pc |-> "done", result |-> IF status = Removed THEN "NotFound" ELSE "ok",
        quizId |-> startQuizCalls[c].quizId, userId |-> startQuizCalls[c].userId,
        read |-> startQuizCalls[c].read]]
  /\ UNCHANGED <<storeVars, submitCalls, finishQuizCalls, deleteQuizCalls, joinCalls, gatewayVars, createVars>>

(***************************************************************************)
(* QuizzesService.finishQuiz(quizId, userId), called over HTTP             *)
(* (TeacherQuizController.finishQuiz).                                     *)
(***************************************************************************)
\* The checks after the read of a quiz that has a row (lines 409-415).
FinishQuizCheck(quizId, userId) ==
  IF quizId # QuizId THEN "NotFound"
  ELSE IF userId # Creator THEN "Forbidden"
  ELSE "ok"

\* A finishQuiz that would act on a started quiz only: what C10 rules out.
FinishQuizStatus_StartedOnly(st) == IF st = "started" THEN "finished" ELSE st

\* What quiz.status = FINISHED; save(quiz) leaves in the store (lines
\* 417-418), whatever the status read was.
FinishQuizStatus(st) == "finished"

\* findOne (line 404) and the checks.
FinishQuizRead(c, quizId, userId) ==
  /\ Free(finishQuizCalls[c])
  /\ LowerBusy(finishQuizCalls, c)
  /\ LET r == IF status = Removed THEN "NotFound" ELSE FinishQuizCheck(quizId, userId)
     IN finishQuizCalls' = [finishQuizCalls EXCEPT ![c] =
          IF r = "ok"
          THEN [pc |-> "save", quizId |-> quizId, userId |-> userId, read |-> status]
          ELSE [pc |-> "done", result |-> r, quizId |-> quizId, userId |-> userId,
                read |-> status]]
  /\ UNCHANGED <<storeVars, submitCalls, startQuizCalls, deleteQuizCalls, joinCalls, gatewayVars, createVars>>

\* quiz.status = FINISHED; save(quiz); clearCache(quizId) (lines 417-421).
FinishQuizSave(c) ==
  /\ finishQuizCalls[c].pc = "save"
  /\ status' = FinishQuizStatus(finishQuizCalls[c].read)
  /\ questionTimeCache' = NoCache
  /\ finishQuizCalls' = [finishQuizCalls EXCEPT ![c] =
       [pc |-> "done", result |-> "ok", quizId |-> finishQuizCalls[c].quizId,
        userId |-> finishQuizCalls[c].userId, read |-> finishQuizCalls[c].read]]
  /\ UNCHANGED <<participants, answers, submitCalls, startQuizCalls, deleteQuizCalls, joinCalls, gatewayVars, createVars>>

(***************************************************************************)
(* QuizzesService.deleteQuiz(quizId, userId)                               *)
(* (TeacherQuizController.deleteQuiz).                                     *)
(***************************************************************************)
\* A deleteQuiz that would not compare the requester with the creator: what
\* C11 rules out.
DeleteQuizCheck_AnyUser(quizId, userId, st) ==
  IF quizId # QuizId \/ st = Removed THEN "NotFound"
  ELSE IF st = "started" THEN "InvalidState"
  ELSE "ok"

\* The checks after the read (lines 608-619).
DeleteQuizCheck(quizId, userId, st) ==
  IF quizId # QuizId \/ st = Removed THEN "NotFound"
  ELSE IF userId # Creator THEN "Forbidden"
  ELSE IF st = "started" THEN "InvalidState"
  ELSE "ok"

\* findOne (line 604) and the checks.
DeleteQuizRead(c, quizId, userId) ==
  /\ Free(deleteQuizCalls[c])
  /\ LowerBusy(deleteQuizCalls, c)
  /\ LET r == DeleteQuizCheck(quizId, userId, status)
     IN deleteQuizCalls' = [deleteQuizCalls EXCEPT ![c] =
          IF r = "ok"
          THEN [pc |-> "remove", quizId |-> quizId, userId |-> userId, read |-> status]
          ELSE [pc |-> "done", result |-> r, quizId |-> quizId, userId |-> userId,
                read |-> status]]
  /\ UNCHANGED <<storeVars, submitCalls, startQuizCalls, finishQuizCalls, joinCalls, gatewayVars, createVars>>

\* quizRepository.remove(quiz) (line 622): the row of the quiz goes, and by
\* ON DELETE CASCADE its participants and their answers with it.
DeleteQuizRemove(c) ==
  /\ deleteQuizCalls[c].pc = "remove"
  /\ status' = Removed
  /\ participants' = {}
  /\ answers' = {}
  /\ deleteQuizCalls' = [deleteQuizCalls EXCEPT ![c] =
       [pc |-> "done", result |-> "ok", quizId |-> deleteQuizCalls[c].quizId,
        userId |-> deleteQuizCalls[c].userId, read |-> deleteQuizCalls[c].read]]
  /\ UNCHANGED <<questionTimeCache, submitCalls, startQuizCalls, finishQuizCalls, joinCalls,
                 gatewayVars, createVars>>

(***************************************************************************)
(* QuizzesService.submitAnswer(pin, questionId, participantId, dto).  One  *)
(* action per store operation; the selected option and the response time   *)
(* of the dto are first read after the existence check and are drawn       *)
(* there.                                                                   *)
(***************************************************************************)
\* The Answer rows stored for (participantId, questionId).
AnswersOf(p, q) == { a \in answers : a.participantId = p /\ a.questionId = q }

\* The check on the quiz read by PIN (lines 327-334).
SubmitQuizCheck(pin, st) ==
  IF pin # Pin THEN "NotFound"
  ELSE IF st # "started" THEN "InvalidState"
  ELSE "ok"

\* The check on the participant row read (line 349).
SubmitParticipantCheck(pin, p) ==
  IF \E r \in participants : r.id = p /\ r.pin = pin THEN "ok" ELSE "NotFound"

\* A submitAnswer without the existence check: what C2 rules out.
SubmitExistingCheck_None(p, q) == "ok"

\* The check on the existing Answer read (lines 354-360).
SubmitExistingCheck(p, q) ==
  IF AnswersOf(p, q) # {} THEN "Conflict" ELSE "ok"

\* An option check that would not look for the selected option among the
\* question's options: what C35 rules out.
SubmitOptionCheck_AnyOption(q, sel) ==
  IF correctAnswerId(q) = NoOption THEN "Validation" ELSE "ok"

\* An option check that would not ask for a configured correct option: what
\* C16 rules out.
SubmitOptionCheck_AnyQuestion(q, sel) ==
  IF sel \notin Options(q) THEN "Validation" ELSE "ok"

\* The checks on the selected option and on the correct one (lines
\* 362-372).
SubmitOptionCheck(q, sel) ==
  IF sel \notin Options(q) THEN "Validation"
  ELSE IF correctAnswerId(q) = NoOption THEN "Validation"
  ELSE "ok"

\* A submitAnswer that would never finish the quiz: what C17 rules out.
ShouldAutoFinish_Never(tug) == FALSE

\* shouldAutoFinish (line 390).
ShouldAutoFinish(tug) == Abs(tug.position) >= 10000 /\ tug.hasAnswers

\* What a finished call leaves in its slot: what it threw or "ok", its pair,
\* whether an Answer for the pair was stored when the call began (late: the
\* call came with the quiz's PIN after an Answer of its pair), and the
\* gameFinished flag it returned; announced: its caller has sent the room
\* all it sends after the call.
SubmitDone(call, r, finished) ==
  [pc |-> "done", result |-> r, pin |-> call.pin, p |-> call.p, q |-> call.q,
   late |-> call.late, gameFinished |-> finished, announced |-> FALSE]

\* findOne quiz by PIN (line 327).
SubmitReadQuiz(c, pin, q, p) ==
  /\ Free(submitCalls[c])
  /\ LowerBusy(submitCalls, c)
  /\ Cardinality(answers) < MaxAnswers \/ AnswersOf(p, q) # {}
  /\ LET r == SubmitQuizCheck(pin, status)
         call == [pc |-> "question", pin |-> pin, p |-> p, q |-> q,
                  late |-> (pin = Pin /\ AnswersOf(p, q) # {})]
     IN submitCalls' = [submitCalls EXCEPT ![c] =
          IF r = "ok" THEN call ELSE SubmitDone(call, r, FALSE)]
  /\ UNCHANGED <<storeVars, startQuizCalls, finishQuizCalls, deleteQuizCalls, joinCalls, gatewayVars, createVars>>

\* findOne question with its options (line 336).
SubmitReadQuestion(c) ==
  /\ submitCalls[c].pc = "question"
  /\ submitCalls' = [submitCalls EXCEPT ![c] =
       IF submitCalls[c].q \in StoredQuestions
       THEN [submitCalls[c] EXCEPT !.pc = "participant"]
       ELSE SubmitDone(submitCalls[c], "NotFound", FALSE)]
  /\ UNCHANGED <<storeVars, startQuizCalls, finishQuizCalls, deleteQuizCalls, joinCalls, gatewayVars, createVars>>

\* findOne participant (line 345).
SubmitReadParticipant(c) ==
  /\ submitCalls[c].pc = "participant"
  /\ submitCalls' = [submitCalls EXCEPT ![c] =
       IF SubmitParticipantCheck(submitCalls[c].pin, submitCalls[c].p) = "ok"
       THEN [submitCalls[c] EXCEPT !.pc = "existing"]
       ELSE SubmitDone(submitCalls[c], "NotFound", FALSE)]
  /\ UNCHANGED <<storeVars, startQuizCalls, finishQuizCalls, deleteQuizCalls, joinCalls, gatewayVars, createVars>>

\* findOne existing Answer (line 354), then the option checks and the row
\* built for the insert (lines 362-382).
SubmitReadExisting(c, sel, rt) ==
  /\ submitCalls[c].pc = "existing"
  /\ LET call == submitCalls[c]
         r == IF SubmitExistingCheck(call.p, call.q) # "ok"
              THEN SubmitExistingCheck(call.p, call.q)
              ELSE SubmitOptionCheck(call.q, sel)
     IN submitCalls' = [submitCalls EXCEPT ![c] =
          IF r = "ok"
          THEN [pc |-> "save", pin |-> call.pin, p |-> call.p, q |-> call.q,
                late |-> call.late, sel |-> sel, rt |-> rt,
                isCorrect |-> (correctAnswerId(call.q) = sel)]
          ELSE SubmitDone(call, r, FALSE)]
  /\ UNCHANGED <<storeVars, startQuizCalls, finishQuizCalls, deleteQuizCalls, joinCalls, gatewayVars, createVars>>

\* answerRepository.save(answer) (line 384): an insert under a fresh id.
SubmitSave(c) ==
  /\ submitCalls[c].pc = "save"
  /\ LET call == submitCalls[c]
     IN /\ answers' = answers \cup
             {[id |-> Cardinality(answers) + 1, participantId |-> call.p,
               questionId |-> call.q, selectedOptionId |-> call.sel,
               isCorrect |-> call.isCorrect, responseTimeMs |-> call.rt]}
        /\ submitCalls' = [submitCalls EXCEPT ![c] =
             [pc |-> "tugParticipants", pin |-> call.pin, p |-> call.p, q |-> call.q,
              late |-> call.late]]
  /\ UNCHANGED <<status, participants, questionTimeCache, startQuizCalls,
                 finishQuizCalls, deleteQuizCalls, joinCalls, gatewayVars, createVars>>

\* calculateTugPosition: find participants, then getAverageQuestionTime,
\* which fills the cache (lines 155-171 of tug-of-war.service.ts).
SubmitTugParticipants(c) ==
  /\ submitCalls[c].pc = "tugParticipants"
  /\ questionTimeCache' = IF QuizParticipants = {} THEN questionTimeCache
                          ELSE AverageQuestionTime
  /\ submitCalls' = [submitCalls EXCEPT ![c] =
       [pc |-> "tugAnswers", p |-> submitCalls[c].p, q |-> submitCalls[c].q,
        late |-> submitCalls[c].late, pin |-> submitCalls[c].pin,
        ps |-> QuizParticipants]]
  /\ UNCHANGED <<status, participants, answers, startQuizCalls, finishQuizCalls,
                 deleteQuizCalls, joinCalls, gatewayVars, createVars>>

\* calculateTugPosition: find the answers and compute (lines 175-206), then
\* shouldAutoFinish (line 390).
SubmitTugAnswers(c) ==
  /\ submitCalls[c].pc = "tugAnswers"
  /\ LET call == submitCalls[c]
         tug == calculateTugPosition(call.ps, answers, AverageQuestionTime)
     IN submitCalls' = [submitCalls EXCEPT ![c] =
          IF ShouldAutoFinish(tug)
          THEN [pc |-> "finish", pin |-> call.pin, p |-> call.p, q |-> call.q,
                late |-> call.late]
          ELSE SubmitDone(call, "ok", FALSE)]
  /\ UNCHANGED <<storeVars, startQuizCalls, finishQuizCalls, deleteQuizCalls, joinCalls, gatewayVars, createVars>>

\* quiz.status = FINISHED; save(quiz) (lines 393-396).
SubmitFinish(c) ==
  /\ submitCalls[c].pc = "finish"
  /\ status' = "finished"
  /\ submitCalls' = [submitCalls EXCEPT ![c] = SubmitDone(submitCalls[c], "ok", TRUE)]
  /\ UNCHANGED <<participants, answers, questionTimeCache, startQuizCalls,
                 finishQuizCalls, deleteQuizCalls, joinCalls, gatewayVars, createVars>>

\* The steps of a submitAnswer call after its first read.
SubmitStep(c) ==
  \/ SubmitReadQuestion(c)
  \/ SubmitReadParticipant(c)
  \/ \E sel \in OptionIds, rt \in ResponseTimes : SubmitReadExisting(c, sel, rt)
  \/ SubmitSave(c)
  \/ SubmitTugParticipants(c)
  \/ SubmitTugAnswers(c)
  \/ SubmitFinish(c)

(***************************************************************************)
(* The state the specifications start from: the quiz created, the          *)
(* participants joined, no call in flight, the gateway idle.               *)
(***************************************************************************)
SubmitIds == 1 .. MaxSubmitCalls
StartQuizIds == 1 .. MaxStartQuizCalls
FinishQuizIds == 1 .. MaxFinishQuizCalls
DeleteQuizIds == 1 .. MaxDeleteQuizCalls
JoinIds == 1 .. MaxJoinCalls
CreateIds == 1 .. MaxCreateCalls
NoTimer == [questionIndex |-> -1, timerId |-> 0]
ClientIds == {"creator", "other", "student"}
\* A handleJoinQuiz not in flight.
NoJoin == [pc |-> "idle"]
\* A socket that is not connected: no tags in client.data, in no room, not
\* in pinRooms, no clientLastActivity record (0), no join-quiz in flight.
NoClient ==
  [role |-> "null", userId |-> "null", pin |-> "null", participantId |-> NoParticipant,
   connected |-> FALSE, rooms |-> {}, pinRooms |-> {}, lastActivity |-> 0,
   join |-> NoJoin]

GatewayIdle ==
  /\ now = 1
  /\ clientData = [c \in ClientIds |-> NoClient]
  /\ questionStartTimes = [i \in QuestionIds |-> 0]
  /\ questionTimers = NoTimer
  /\ timeouts = {}
  /\ autoAdvanceCalls = {}
  /\ startQuestionCalls = Idle
  /\ finishQuestionCalls = Idle
  /\ finishQuizEvents = Idle
  /\ room = <<>>
  /\ requests = 0

StoreInit(st) ==
  /\ status = st
  /\ participants = { ParticipantRow(p) : p \in ParticipantIds }
  /\ answers = {}
  /\ questionTimeCache = NoCache
  /\ submitCalls = [c \in SubmitIds |-> Idle]
  /\ startQuizCalls = [c \in StartQuizIds |-> Idle]
  /\ finishQuizCalls = [c \in FinishQuizIds |-> Idle]
  /\ deleteQuizCalls = [c \in DeleteQuizIds |-> Idle]
  /\ joinCalls = [c \in JoinIds |-> Idle]
  /\ quizRows = {}
  /\ createCalls = [c \in CreateIds |-> Idle]

(***************************************************************************)
(* ServiceSpec: the lifecycle under concurrent QuizzesService calls:       *)
(* startQuiz, finishQuiz over HTTP, and one submitAnswer at a time (the    *)
(* win by domination) for the quiz's first question.                       *)
(***************************************************************************)
ServiceInit == StoreInit("created") /\ GatewayIdle

ServiceNext ==
  \/ \E c \in StartQuizIds, quizId \in {QuizId, NoQuiz}, userId \in {Creator, Other} :
       StartQuizRead(c, quizId, userId)
  \/ \E c \in StartQuizIds : StartQuizSave(c)
  \/ \E c \in StartQuizIds : StartQuizReload(c)
  \/ \E c \in FinishQuizIds, quizId \in {QuizId, NoQuiz}, userId \in {Creator, Other} :
       FinishQuizRead(c, quizId, userId)
  \/ \E c \in FinishQuizIds : FinishQuizSave(c)
  \/ \E p \in ParticipantIds : SubmitReadQuiz(1, Pin, 0, p)
  \/ SubmitStep(1)

ServiceSpec == ServiceInit /\ [][ServiceNext]_vars

(***************************************************************************)
(* AnswerSpec: concurrent submitAnswer calls on the started quiz, for its  *)
(* first question or a question that does not exist.                       *)
(***************************************************************************)
AnswerInit == StoreInit("started") /\ GatewayIdle

AnswerNext ==
  \/ \E c \in SubmitIds, pin \in {Pin, BadPin}, q \in {0, NoQuestion},
        p \in ParticipantIds \cup {NoParticipant} : SubmitReadQuiz(c, pin, q, p)
  \/ \E c \in SubmitIds : SubmitStep(c)

AnswerSpec == AnswerInit /\ [][AnswerNext]_vars

(***************************************************************************)
(* Properties of the store under QuizzesService calls.                     *)
(***************************************************************************)
\* The step is one of submitAnswer call c that began after an Answer of its
\* pair was stored.
LateStep(c) == submitCalls'[c] # submitCalls[c] /\ submitCalls'[c].late
\* The step ends submitAnswer call c.
SubmitEnds(c) == submitCalls'[c] # submitCalls[c] /\ submitCalls'[c].pc = "done"

\* C1: at most one Answer is stored for any (participantId, questionId)
\* pair, in every reachable state, racing submitAnswer calls included.
C1_AtMostOneAnswerPerPair ==
  \A a, b \in answers :
    (a.participantId = b.participantId /\ a.questionId = b.questionId) => a = b

Rank(st) == CASE st = "created" -> 0 [] st = "started" -> 1 [] st = "finished" -> 2

\* C3: the status only moves forward: no step takes it from finished to
\* started or created, or from started to created.
C3_StatusOnlyForward == [][Rank(status') >= Rank(status)]_vars

\* The step is the first read of startQuiz call c, made by the creator for
\* the quiz.
StartQuizBegins(c) ==
  /\ Free(startQuizCalls[c])
  /\ startQuizCalls'[c] # startQuizCalls[c]
  /\ startQuizCalls'[c].userId = Creator
  /\ ~(startQuizCalls'[c].pc = "done" /\ startQuizCalls'[c].result = "NotFound")

\* C9: startQuiz by the creator goes on to write started, and succeeds,
\* exactly when the status it reads is created; reading started or finished
\* it fails with InvalidState and leaves the status as it was.
C9_StartQuizOnlyFromCreated ==
  [][\A c \in StartQuizIds :
        /\ StartQuizBegins(c) =>
             /\ status' = status
             /\ IF status = "created"
                THEN startQuizCalls'[c].pc = "save"
                ELSE /\ startQuizCalls'[c].pc = "done"
                     /\ startQuizCalls'[c].result = "InvalidState"
        /\ (startQuizCalls[c].pc = "save" /\ startQuizCalls'[c] # startQuizCalls[c]) =>
             /\ status' = "started"
             /\ startQuizCalls[c].read = "created"
        /\ (startQuizCalls[c].pc = "reload" /\ startQuizCalls'[c] # startQuizCalls[c]) =>
             /\ startQuizCalls'[c].pc = "done"
             /\ startQuizCalls'[c].result = "ok"
             /\ status' = status]_vars

\* C9 witness: the creator's startQuiz on the finished quiz has failed with
\* InvalidState and the quiz is still finished.
C9_Witness ==
  \E c \in StartQuizIds :
    /\ startQuizCalls[c].pc = "done"
    /\ startQuizCalls[c].userId = Creator
    /\ startQuizCalls[c].result = "InvalidState"
    /\ startQuizCalls[c].read = "finished"
    /\ status = "finished"

\* C10: finishQuiz by the creator is never refused for the status it reads
\* (created, started or finished); its write leaves the status finished and
\* the answers and participants as they were, so on a quiz already finished
\* it changes nothing of them.
C10_FinishQuizIdempotent ==
  [][\A c \in FinishQuizIds :
        /\ (Free(finishQuizCalls[c]) /\ finishQuizCalls'[c] # finishQuizCalls[c]) =>
             \/ finishQuizCalls'[c].pc = "save"
             \/ finishQuizCalls'[c].result \in {"NotFound", "Forbidden"}
        /\ (finishQuizCalls[c].pc = "save" /\ finishQuizCalls'[c] # finishQuizCalls[c]) =>
             /\ finishQuizCalls'[c].pc = "done"
             /\ finishQuizCalls'[c].result = "ok"
             /\ status' = "finished"
             /\ answers' = answers
             /\ participants' = participants]_vars

\* C10 witness: a second finishQuiz, which read the quiz as finished, has
\* succeeded, and an Answer stored before it is still there.
C10_Witness ==
  \E c \in FinishQuizIds :
    /\ finishQuizCalls[c].pc = "done"
    /\ finishQuizCalls[c].result = "ok"
    /\ finishQuizCalls[c].read = "finished"
    /\ status = "finished"
    /\ answers # {}

(***************************************************************************)
(* QuizGateway: question timers, the clock, and the handlers of            *)
(* start-question, finish-question and finish-quiz.                        *)
(***************************************************************************)
GraceSeconds == 3        \* the 3000 ms added to every question timer
MaxClock == 2            \* the clock runs on past it only towards a pending timer
MaxRequests == 2         \* gateway requests received from clients

LastIndex == NumQuestions - 1
\* The index a start-question request may carry, one past the end included.
RequestIndexes == 0 .. NumQuestions

\* An event broadcast to the room.
Event(type, st, index) == [type |-> type, status |-> st, index |-> index]
NoIndex == -1
Emit(events) == room' = room \o events

\* setTimeout returns a timer id no other live timer carries.
UsedTimerIds ==
  { t.id : t \in timeouts } \cup { h.id : h \in autoAdvanceCalls }
    \cup { questionTimers.timerId }
FreshTimerId == CHOOSE id \in 1 .. (Cardinality(UsedTimerIds) + 1) : id \notin UsedTimerIds
\* setTimeout(callback, timeSeconds * 1000 + 3000) for question `index`.
NewTimer(index) ==
  [id |-> FreshTimerId, questionIndex |-> index, due |-> now + TimeSeconds + GraceSeconds]
\* clearTimeout(timer.timerId) when the map holds a timer for the quiz.
ClearRegistered ==
  IF questionTimers # NoTimer /\ questionTimers.timerId # 0
  THEN { t \in timeouts : t.id # questionTimers.timerId }
  ELSE timeouts
\* questionTimers.set(quiz.id, {questionIndex, timerId, ...}).
Registered(timer) == [questionIndex |-> timer.questionIndex, timerId |-> timer.id]

\* Time passes.
Tick ==
  /\ now < MaxClock \/ \E t \in timeouts : t.due > now
  /\ now' = now + 1
  /\ UNCHANGED <<storeVars, serviceVars, clientData, questionStartTimes,
                 questionTimers, timeouts, autoAdvanceCalls, startQuestionCalls,
                 finishQuestionCalls, finishQuizEvents, room, requests, createVars>>

(***************************************************************************)
(* handleStartQuestion (lines 390-572).                                    *)
(***************************************************************************)
\* The request arrives: userId and role are read from client.data (lines
\* 396-397) and getQuizByPin reads the quiz (line 403).
StartQuestionRead(client, index) ==
  /\ Free(startQuestionCalls)
  /\ requests < MaxRequests
  /\ requests' = requests + 1
  /\ startQuestionCalls' = [pc |-> "act", client |-> client, index |-> index,
                            userId |-> clientData[client].userId,
                            role |-> clientData[client].role, read |-> status]
  /\ UNCHANGED <<storeVars, serviceVars, now, clientData, questionStartTimes,
                 questionTimers, timeouts, autoAdvanceCalls, finishQuestionCalls,
                 finishQuizEvents, room, createVars>>

\* A role check that would not compare the stored user id with the creator
\* of the quiz: what C13 rules out.
StartQuestionRoleCheck_AnyUser(role, userId) ==
  IF role # "teacher"
  THEN IF userId = "null" THEN "error" ELSE "promote"
  ELSE "ok"

\* The role check (lines 408-437): "ok", "promote" when the role is set to
\* teacher on the way, or "error".
StartQuestionRoleCheck(role, userId) ==
  IF role # "teacher"
  THEN IF userId = "null" THEN "error"
       ELSE IF userId = Creator THEN "promote" ELSE "error"
  ELSE IF userId # Creator THEN "error" ELSE "ok"

\* A handler that would not wait for the previous question: what C14 rules
\* out.
TooEarly_Never(index) == FALSE

\* The previous question's time has not run out (lines 479-501).
TooEarly(index) ==
  /\ index > 0
  /\ questionStartTimes[index - 1] # 0
  /\ now - questionStartTimes[index - 1] < TimeSeconds

\* The checks on the status, the index and the time (lines 446-501), in
\* the order of the source: the error sent to the client, or "ok".
StartQuestionCheck(call) ==
  IF call.read # "started" THEN "InvalidState"
  ELSE IF call.index < 0 \/ call.index >= NumQuestions THEN "Validation"
  ELSE IF TooEarly(call.index) THEN "TooEarly"
  ELSE "ok"

\* What the handler returns to the caller: {success: true}, or
\* {success: false} after the error it sent to the client.
StartQuestionDone(error) == [pc |-> "done", success |-> (error = "ok"), error |-> error]

\* client.data.role = 'teacher' (line 421).
Promote(call) ==
  IF StartQuestionRoleCheck(call.role, call.userId) = "promote"
  THEN [clientData EXCEPT ![call.client].role = "teacher"]
  ELSE clientData

\* A check fails: an error goes to the client alone.
StartQuestionReject ==
  /\ startQuestionCalls.pc = "act"
  /\ \/ StartQuestionRoleCheck(startQuestionCalls.role, startQuestionCalls.userId) = "error"
     \/ StartQuestionCheck(startQuestionCalls) # "ok"
  /\ clientData' = Promote(startQuestionCalls)
  /\ startQuestionCalls' =
       IF StartQuestionRoleCheck(startQuestionCalls.role, startQuestionCalls.userId) = "error"
       THEN StartQuestionDone("Forbidden")
       ELSE StartQuestionDone(StartQuestionCheck(startQuestionCalls))
  /\ UNCHANGED <<storeVars, serviceVars, now, questionStartTimes, questionTimers,
                 timeouts, autoAdvanceCalls, finishQuestionCalls, finishQuizEvents,
                 room, requests, createVars>>

\* The checks pass: the start time is recorded, the registered timer is
\* cleared, a new one is set and registered, and the three events go to the
\* room (lines 511-564).
StartQuestionStart ==
  /\ startQuestionCalls.pc = "act"
  /\ StartQuestionRoleCheck(startQuestionCalls.role, startQuestionCalls.userId) # "error"
  /\ StartQuestionCheck(startQuestionCalls) = "ok"
  /\ LET index == startQuestionCalls.index
         timer == NewTimer(index)
     IN /\ questionStartTimes' = [questionStartTimes EXCEPT ![index] = now]
        /\ timeouts' = ClearRegistered \cup {timer}
        /\ questionTimers' = Registered(timer)
        /\ Emit(<<Event("start-question", "none", index),
                  Event("game-update", startQuestionCalls.read, index),
                  Event("question-started", "none", index)>>)
  /\ clientData' = Promote(startQuestionCalls)
  /\ startQuestionCalls' = StartQuestionDone("ok")
  /\ UNCHANGED <<storeVars, serviceVars, now, autoAdvanceCalls, finishQuestionCalls,
                 finishQuizEvents, requests, createVars>>

(***************************************************************************)
(* autoAdvanceQuestion (lines 581-690), run by a question timer.  The      *)
(* userId a timer carries passed handleStartQuestion's check: it is the    *)
(* creator's.                                                              *)
(***************************************************************************)
Replace(calls, h, pc) == (calls \ {h}) \cup {[h EXCEPT !.pc = pc]}
FinalEvent(index) == Event("game-update", "finished", index)
ResultsEvent == Event("quiz-results", "none", NoIndex)

\* The timer fires: its callback calls autoAdvanceQuestion, whose
\* getQuizByPin reads the quiz (lines 528-531 and 669-672, line 583).
TimerFire(t) ==
  /\ t \in timeouts
  /\ t.due <= now
  /\ timeouts' = timeouts \ {t}
  /\ autoAdvanceCalls' = autoAdvanceCalls \cup
       {[id |-> t.id, questionIndex |-> t.questionIndex, pc |-> "act", read |-> status]}
  /\ UNCHANGED <<storeVars, serviceVars, now, clientData, questionStartTimes,
                 questionTimers, startQuestionCalls, finishQuestionCalls,
                 finishQuizEvents, room, requests, createVars>>

\* The status re-check (line 593).
AutoAdvanceCheck(st) == st = "started"

\* The quiz read is not started: the registered timer is cleared and
\* forgotten, nothing else (lines 593-602).
AutoAdvanceSkip(h) ==
  /\ h \in autoAdvanceCalls
  /\ h.pc = "act"
  /\ ~AutoAdvanceCheck(h.read)
  /\ timeouts' = ClearRegistered
  /\ questionTimers' = NoTimer
  /\ autoAdvanceCalls' = autoAdvanceCalls \ {h}
  /\ UNCHANGED <<storeVars, serviceVars, now, clientData, questionStartTimes,
                 startQuestionCalls, finishQuestionCalls, finishQuizEvents, room,
                 requests, createVars>>

\* The last question: the registered timer is cleared and forgotten, then
\* finishQuiz is called (lines 607-619).
AutoAdvanceLast(h) ==
  /\ h \in autoAdvanceCalls
  /\ h.pc = "act"
  /\ AutoAdvanceCheck(h.read)
  /\ h.questionIndex + 1 >= NumQuestions
  /\ timeouts' = ClearRegistered
  /\ questionTimers' = NoTimer
  /\ autoAdvanceCalls' = Replace(autoAdvanceCalls, h, "finish")
  /\ UNCHANGED <<storeVars, serviceVars, now, clientData, questionStartTimes,
                 startQuestionCalls, finishQuestionCalls, finishQuizEvents, room,
                 requests, createVars>>

\* Another question follows: it is announced, its start time recorded, a
\* timer set for it and registered (lines 640-684).
AutoAdvanceNext(h) ==
  /\ h \in autoAdvanceCalls
  /\ h.pc = "act"
  /\ AutoAdvanceCheck(h.read)
  /\ h.questionIndex + 1 < NumQuestions
  /\ LET nextIndex == h.questionIndex + 1
         timer == NewTimer(nextIndex)
     IN /\ Emit(<<Event("start-question", "none", nextIndex),
                  Event("game-update", h.read, nextIndex)>>)
        /\ questionStartTimes' = [questionStartTimes EXCEPT ![nextIndex] = now]
        /\ timeouts' = timeouts \cup {timer}
        /\ questionTimers' = Registered(timer)
  /\ autoAdvanceCalls' = autoAdvanceCalls \ {h}
  /\ UNCHANGED <<storeVars, serviceVars, now, clientData, startQuestionCalls,
                 finishQuestionCalls, finishQuizEvents, requests, createVars>>

\* finishQuiz(quizId, userId) (line 619).
AutoAdvanceFinish(h) ==
  /\ h \in autoAdvanceCalls
  /\ h.pc = "finish"
  /\ FinishQuizCheck(QuizId, Creator) = "ok"
  /\ status' = FinishQuizStatus(status)
  /\ questionTimeCache' = NoCache
  /\ autoAdvanceCalls' = Replace(autoAdvanceCalls, h, "tug")
  /\ UNCHANGED <<participants, answers, serviceVars, now, clientData,
                 questionStartTimes, questionTimers, timeouts, startQuestionCalls,
                 finishQuestionCalls, finishQuizEvents, room, requests, createVars>>

\* getTugPosition, then the finished game-update (lines 622-627).
AutoAdvanceTug(h) ==
  /\ h \in autoAdvanceCalls
  /\ h.pc = "tug"
  /\ questionTimeCache' = IF QuizParticipants = {} THEN questionTimeCache
                          ELSE AverageQuestionTime
  /\ Emit(<<FinalEvent(h.questionIndex)>>)
  /\ autoAdvanceCalls' = Replace(autoAdvanceCalls, h, "results")
  /\ UNCHANGED <<status, participants, answers, serviceVars, now, clientData,
                 questionStartTimes, questionTimers, timeouts, startQuestionCalls,
                 finishQuestionCalls, finishQuizEvents, requests, createVars>>

\* getResults, then quiz-results (lines 631-634).
AutoAdvanceResults(h) ==
  /\ h \in autoAdvanceCalls
  /\ h.pc = "results"
  /\ Emit(<<ResultsEvent>>)
  /\ autoAdvanceCalls' = autoAdvanceCalls \ {h}
  /\ UNCHANGED <<storeVars, serviceVars, now, clientData, questionStartTimes,
                 questionTimers, timeouts, startQuestionCalls, finishQuestionCalls,
                 finishQuizEvents, requests, createVars>>

(***************************************************************************)
(* handleFinishQuestion (lines 809-876).                                   *)
(***************************************************************************)
\* The request arrives: the role check (line 817), then getQuizByPin reads
\* the quiz (line 823).
FinishQuestionRead(client) ==
  /\ finishQuestionCalls = Idle
  /\ requests < MaxRequests
  /\ requests' = requests + 1
  /\ finishQuestionCalls' =
       IF clientData[client].role # "teacher" THEN Idle
       ELSE [pc |-> "act", userId |-> clientData[client].userId, read |-> status]
  /\ UNCHANGED <<storeVars, serviceVars, now, clientData, questionStartTimes,
                 questionTimers, timeouts, autoAdvanceCalls, startQuestionCalls,
                 finishQuizEvents, room, createVars>>

\* isLastQuestion (line 828).
IsLastQuestion == questionTimers # NoTimer /\ questionTimers.questionIndex = LastIndex

\* question-finished goes to the room; on the last question of a quiz read
\* as started the registered timer is cleared and forgotten and finishQuiz
\* is called (lines 827-848).
FinishQuestionAct ==
  /\ finishQuestionCalls.pc = "act"
  /\ Emit(<<Event("question-finished", "none", NoIndex)>>)
  /\ IF IsLastQuestion /\ finishQuestionCalls.read = "started"
     THEN /\ timeouts' = ClearRegistered
          /\ questionTimers' = NoTimer
          /\ finishQuestionCalls' = [pc |-> "finish", userId |-> finishQuestionCalls.userId,
                                     index |-> questionTimers.questionIndex]
     ELSE /\ finishQuestionCalls' = Idle
          /\ UNCHANGED <<timeouts, questionTimers>>
  /\ UNCHANGED <<storeVars, serviceVars, now, clientData, questionStartTimes,
                 autoAdvanceCalls, startQuestionCalls, finishQuizEvents, requests, createVars>>

\* finishQuiz(quiz.id, userId) (line 848); what it throws goes to the client.
FinishQuestionFinish ==
  /\ finishQuestionCalls.pc = "finish"
  /\ IF FinishQuizCheck(QuizId, finishQuestionCalls.userId) = "ok"
     THEN /\ status' = FinishQuizStatus(status)
          /\ questionTimeCache' = NoCache
          /\ finishQuestionCalls' = [finishQuestionCalls EXCEPT !.pc = "tug"]
     ELSE /\ finishQuestionCalls' = Idle
          /\ UNCHANGED <<status, questionTimeCache>>
  /\ UNCHANGED <<participants, answers, serviceVars, now, clientData,
                 questionStartTimes, questionTimers, timeouts, autoAdvanceCalls,
                 startQuestionCalls, finishQuizEvents, room, requests, createVars>>

\* getTugPosition, then the finished game-update (lines 851-857).
FinishQuestionTug ==
  /\ finishQuestionCalls.pc = "tug"
  /\ questionTimeCache' = IF QuizParticipants = {} THEN questionTimeCache
                          ELSE AverageQuestionTime
  /\ Emit(<<FinalEvent(finishQuestionCalls.index)>>)
  /\ finishQuestionCalls' = [finishQuestionCalls EXCEPT !.pc = "results"]
  /\ UNCHANGED <<status, participants, answers, serviceVars, now, clientData,
                 questionStartTimes, questionTimers, timeouts, autoAdvanceCalls,
                 startQuestionCalls, finishQuizEvents, requests, createVars>>

\* getResults, then quiz-results (lines 861-863).
FinishQuestionResults ==
  /\ finishQuestionCalls.pc = "results"
  /\ Emit(<<ResultsEvent>>)
  /\ finishQuestionCalls' = Idle
  /\ UNCHANGED <<storeVars, serviceVars, now, clientData, questionStartTimes,
                 questionTimers, timeouts, autoAdvanceCalls, startQuestionCalls,
                 finishQuizEvents, requests, createVars>>

(***************************************************************************)
(* handleFinishQuiz (lines 878-930).                                       *)
(***************************************************************************)
\* The request arrives: the role check (line 885), then finishQuiz is
\* called with the quizId and userId of the message (line 893).
FinishQuizEventRead(client, quizId, userId) ==
  /\ finishQuizEvents = Idle
  /\ requests < MaxRequests
  /\ requests' = requests + 1
  /\ finishQuizEvents' =
       IF clientData[client].role # "teacher" THEN Idle
       ELSE [pc |-> "finish", quizId |-> quizId, userId |-> userId]
  /\ UNCHANGED <<storeVars, serviceVars, now, clientData, questionStartTimes,
                 questionTimers, timeouts, autoAdvanceCalls, startQuestionCalls,
                 finishQuestionCalls, room, createVars>>

\* finishQuiz(quizId, userId) (line 893); what it throws goes to the client.
FinishQuizEventFinish ==
  /\ finishQuizEvents.pc = "finish"
  /\ IF FinishQuizCheck(finishQuizEvents.quizId, finishQuizEvents.userId) = "ok"
     THEN /\ status' = FinishQuizStatus(status)
          /\ questionTimeCache' = NoCache
          /\ finishQuizEvents' = [finishQuizEvents EXCEPT !.pc = "clear"]
     ELSE /\ finishQuizEvents' = Idle
          /\ UNCHANGED <<status, questionTimeCache>>
  /\ UNCHANGED <<participants, answers, serviceVars, now, clientData,
                 questionStartTimes, questionTimers, timeouts, autoAdvanceCalls,
                 startQuestionCalls, finishQuestionCalls, room, requests, createVars>>

\* After finishQuiz returned: the registered timer is cleared and forgotten
\* and the start times are dropped (lines 896-903); getTugPosition is called.
FinishQuizEventClear ==
  /\ finishQuizEvents.pc = "clear"
  /\ timeouts' = ClearRegistered
  /\ questionTimers' = NoTimer
  /\ questionStartTimes' = [i \in QuestionIds |-> 0]
  /\ finishQuizEvents' =
       [pc |-> "tug", userId |-> finishQuizEvents.userId,
        index |-> IF questionTimers # NoTimer THEN questionTimers.questionIndex
                  ELSE LastIndex]
  /\ UNCHANGED <<storeVars, serviceVars, now, clientData, autoAdvanceCalls,
                 startQuestionCalls, finishQuestionCalls, room, requests, createVars>>

\* getTugPosition, then the game-update with the status finishQuiz returned
\* (lines 906-913).
FinishQuizEventTug ==
  /\ finishQuizEvents.pc = "tug"
  /\ questionTimeCache' = IF QuizParticipants = {} THEN questionTimeCache
                          ELSE AverageQuestionTime
  /\ Emit(<<FinalEvent(finishQuizEvents.index)>>)
  /\ finishQuizEvents' = [finishQuizEvents EXCEPT !.pc = "results"]
  /\ UNCHANGED <<status, participants, answers, serviceVars, now, clientData,
                 questionStartTimes, questionTimers, timeouts, autoAdvanceCalls,
                 startQuestionCalls, finishQuestionCalls, requests, createVars>>

\* getResults, then quiz-results (lines 917-919).
FinishQuizEventResults ==
  /\ finishQuizEvents.pc = "results"
  /\ Emit(<<ResultsEvent>>)
  /\ finishQuizEvents' = Idle
  /\ UNCHANGED <<storeVars, serviceVars, now, clientData, questionStartTimes,
                 questionTimers, timeouts, autoAdvanceCalls, startQuestionCalls,
                 finishQuestionCalls, requests, createVars>>

(***************************************************************************)
(* GatewaySpec: the started quiz with its clients joined: the creator as   *)
(* teacher, another user as teacher (join-quiz stores the role before it   *)
(* refuses him), and a client joined as student under the creator's        *)
(* userId.  Questions are started by request and by timer, the quiz is     *)
(* finished by request, over HTTP and by timer.  The quiz was started by   *)
(* a startQuiz call; a second startQuiz call of the creator that read the  *)
(* quiz while it was still created may be waiting to save.                 *)
(***************************************************************************)
\* The startQuiz call that read the quiz as created and has not saved yet.
StaleStartQuiz == [pc |-> "save", quizId |-> QuizId, userId |-> Creator, read |-> "created"]
StartedQuiz ==
  /\ status = "started"
  /\ participants = { ParticipantRow(p) : p \in ParticipantIds }
  /\ submitCalls = [c \in SubmitIds |-> Idle]
  /\ startQuizCalls \in { [c \in StartQuizIds |-> Idle],
                          [c \in StartQuizIds |-> IF c = 1 THEN StaleStartQuiz ELSE Idle] }
  /\ finishQuizCalls = [c \in FinishQuizIds |-> Idle]
  /\ deleteQuizCalls = [c \in DeleteQuizIds |-> Idle]
  /\ joinCalls = [c \in JoinIds |-> Idle]
  /\ quizRows = {}
  /\ createCalls = [c \in CreateIds |-> Idle]

\* A socket after handleJoinQuiz stored its tags (lines 291-306).
Joined(role, userId, participantId) ==
  [role |-> role, userId |-> userId, pin |-> Pin, participantId |-> participantId,
   connected |-> TRUE, rooms |-> {Pin}, pinRooms |-> {Pin}, lastActivity |-> 1,
   join |-> NoJoin]
JoinedClients ==
  [c \in ClientIds |->
     CASE c = "creator" -> Joined("teacher", Creator, NoParticipant)
       [] c = "other"   -> Joined("teacher", Other, NoParticipant)
       [] c = "student" -> Joined("student", Creator, 1)]

GatewayInit ==
  /\ StartedQuiz
  /\ answers = {}
  /\ questionTimeCache = NoCache
  /\ now = 1
  /\ clientData = JoinedClients
  /\ questionStartTimes = [i \in QuestionIds |-> 0]
  /\ questionTimers = NoTimer
  /\ timeouts = {}
  /\ autoAdvanceCalls = {}
  /\ startQuestionCalls = Idle
  /\ finishQuestionCalls = Idle
  /\ finishQuizEvents = Idle
  /\ room = <<>>
  /\ requests = 0

AutoAdvanceStep(h) ==
  \/ AutoAdvanceSkip(h)
  \/ AutoAdvanceLast(h)
  \/ AutoAdvanceNext(h)
  \/ AutoAdvanceFinish(h)
  \/ AutoAdvanceTug(h)
  \/ AutoAdvanceResults(h)

GatewayNext ==
  \/ Tick
  \/ \E client \in ClientIds, index \in RequestIndexes : StartQuestionRead(client, index)
  \/ StartQuestionReject
  \/ StartQuestionStart
  \/ \E t \in timeouts : TimerFire(t)
  \/ \E h \in autoAdvanceCalls : AutoAdvanceStep(h)
  \/ \E client \in ClientIds : FinishQuestionRead(client)
  \/ FinishQuestionAct
  \/ FinishQuestionFinish
  \/ FinishQuestionTug
  \/ FinishQuestionResults
  \/ \E client \in ClientIds, userId \in {Creator, Other} :
       FinishQuizEventRead(client, QuizId, userId)
  \/ FinishQuizEventFinish
  \/ FinishQuizEventClear
  \/ FinishQuizEventTug
  \/ FinishQuizEventResults
  \/ \E c \in FinishQuizIds : FinishQuizRead(c, QuizId, Creator)
  \/ \E c \in FinishQuizIds : FinishQuizSave(c)
  \/ \E c \in StartQuizIds : StartQuizSave(c)
  \/ \E c \in StartQuizIds : StartQuizReload(c)

GatewaySpec == GatewayInit /\ [][GatewayNext]_vars

(***************************************************************************)
(* Properties of the question timers.                                      *)
(***************************************************************************)
\* C4: at most one question timer of the quiz is scheduled and has not yet
\* fired, in every reachable state.
C4_AtMostOneTimer == Cardinality(timeouts) <= 1

\* The step is the continuation of autoAdvanceQuestion handler h after its
\* read of the quiz.
AutoAdvanceActs(h) == h \in autoAdvanceCalls /\ h.pc = "act" /\ h \notin autoAdvanceCalls'

\* The step announces a question or a finish, records a start time, sets a
\* timer, writes the status, or goes on to finish the quiz.
Acts ==
  \/ room' # room
  \/ questionStartTimes' # questionStartTimes
  \/ ~(timeouts' \subseteq timeouts)
  \/ status' # status
  \/ \E g \in autoAdvanceCalls' \ autoAdvanceCalls : g.pc = "finish"

\* C5: the handler of the timer of question k acts only if the timer the
\* map holds is still the one that fired; otherwise it does nothing.
C5_ActsOnlyIfRegistered ==
  [][\A h \in autoAdvanceCalls :
        (AutoAdvanceActs(h) /\ Acts) => questionTimers.timerId = h.id]_vars

\* The quiz has been finished: the status is finished, or a finishQuiz call
\* over HTTP has returned, or a finished game-update has been sent.
HasFinished ==
  \/ status = "finished"
  \/ \E c \in FinishQuizIds :
       finishQuizCalls[c].pc = "done" /\ finishQuizCalls[c].result = "ok"
  \/ \E i \in DOMAIN room : room[i] = FinalEvent(room[i].index)

\* C6: the handler of a timer that fires after the quiz has been finished
\* changes no status, records no start time, sets and registers no timer
\* and sends nothing to the room: it only clears and forgets the registered
\* timer.
C6_FiredAfterFinishDoesNothing ==
  [][/\ \A h \in autoAdvanceCalls' \ autoAdvanceCalls :
          (h.pc = "act" /\ HasFinished) =>
             /\ ~AutoAdvanceCheck(h.read)
             /\ UNCHANGED <<status, questionStartTimes, questionTimers, room>>
             /\ timeouts' \subseteq timeouts
     /\ \A h \in autoAdvanceCalls :
          (h.pc = "act" /\ ~AutoAdvanceCheck(h.read) /\ h \notin autoAdvanceCalls') =>
             /\ UNCHANGED <<status, questionStartTimes, room>>
             /\ questionTimers' = NoTimer
             /\ timeouts' \subseteq timeouts
             /\ autoAdvanceCalls' = autoAdvanceCalls \ {h}]_vars

\* C7: whenever the status is finished no timer of the quiz is scheduled or
\* registered.
C7_FinishedHasNoTimer ==
  status = "finished" => (timeouts = {} /\ questionTimers = NoTimer)

(***************************************************************************)
(* AdvanceSpec: the started quiz run by its timers.  The creator starts    *)
(* questions by request, the timers advance them, and the second           *)
(* participant answers the first question after the first participant      *)
(* answered it correctly: a wrong answer then wins by domination.  The     *)
(* event loop runs every timer that is due and every continuation whose    *)
(* store operation returned, and time passes: weak fairness of the clock,  *)
(* the timers and the autoAdvanceQuestion steps.  Clients owe nothing.     *)
(***************************************************************************)
FirstAnswer ==
  [id |-> 1, participantId |-> 1, questionId |-> 0,
   selectedOptionId |-> correctAnswerId(0), isCorrect |-> TRUE, responseTimeMs |-> 0]

AdvanceInit ==
  /\ StartedQuiz
  /\ answers = {FirstAnswer}
  /\ questionTimeCache = AverageQuestionTime
  /\ now = 1
  /\ clientData = JoinedClients
  /\ questionStartTimes = [i \in QuestionIds |-> 0]
  /\ questionTimers = NoTimer
  /\ timeouts = {}
  /\ autoAdvanceCalls = {}
  /\ startQuestionCalls = Idle
  /\ finishQuestionCalls = Idle
  /\ finishQuizEvents = Idle
  /\ room = <<>>
  /\ requests = 0

AdvanceNext ==
  \/ Tick
  \/ \E index \in QuestionIds : StartQuestionRead("creator", index)
  \/ StartQuestionReject
  \/ StartQuestionStart
  \/ \E t \in timeouts : TimerFire(t)
  \/ \E h \in autoAdvanceCalls : AutoAdvanceStep(h)
  \/ SubmitReadQuiz(1, Pin, 0, 2)
  \/ SubmitStep(1)
  \/ \E c \in StartQuizIds : StartQuizSave(c)
  \/ \E c \in StartQuizIds : StartQuizReload(c)

AdvanceSpec ==
  /\ AdvanceInit
  /\ [][AdvanceNext]_vars
  /\ WF_vars(Tick)
  /\ WF_vars(\E t \in timeouts : TimerFire(t))
  /\ WF_vars(\E h \in autoAdvanceCalls : AutoAdvanceStep(h))

(***************************************************************************)
(* Progress of the quiz under its timers.                                  *)
(***************************************************************************)
\* The quiz is started, question k is the current one, its timer is
\* pending, and no request is in flight or still to come.
TimerPendingFor(k) ==
  /\ status = "started"
  /\ questionTimers.questionIndex = k
  /\ \E t \in timeouts : t.id = questionTimers.timerId
  /\ Free(startQuestionCalls)
  /\ requests = MaxRequests

\* Question i is the current one.
CurrentQuestion(i) == questionTimers.questionIndex = i /\ questionStartTimes[i] # 0

\* The room has been sent a finished game-update and quiz-results after it.
FinishAnnounced ==
  \E i, j \in DOMAIN room :
    /\ i < j
    /\ room[i].type = "game-update" /\ room[i].status = "finished"
    /\ room[j] = ResultsEvent

\* C8 as stated: from a started quiz with the timer of question k pending
\* and no request to come, question k+1 is eventually started, and when k is
\* the last question the quiz is eventually finished, the finished
\* game-update and then quiz-results sent.
C8_TimerAdvances ==
  \A k \in QuestionIds :
    TimerPendingFor(k) ~>
      IF k < LastIndex THEN CurrentQuestion(k + 1)
      ELSE status = "finished" /\ FinishAnnounced

(***************************************************************************)
(* DeleteSpec: the teacher-only transitions startQuiz, finishQuiz and      *)
(* deleteQuiz, called concurrently by the creator and by another user, on  *)
(* the quiz in any status, with or without a stored Answer.                *)
(***************************************************************************)
DeleteInit ==
  /\ status \in {"created", "started", "finished"}
  /\ participants = { ParticipantRow(p) : p \in ParticipantIds }
  /\ answers \in IF status = "created" THEN {{}} ELSE {{}, {FirstAnswer}}
  /\ questionTimeCache = IF status = "started" /\ answers # {}
                         THEN AverageQuestionTime ELSE NoCache
  /\ submitCalls = [c \in SubmitIds |-> Idle]
  /\ startQuizCalls = [c \in StartQuizIds |-> Idle]
  /\ finishQuizCalls = [c \in FinishQuizIds |-> Idle]
  /\ deleteQuizCalls = [c \in DeleteQuizIds |-> Idle]
  /\ joinCalls = [c \in JoinIds |-> Idle]
  /\ quizRows = {}
  /\ createCalls = [c \in CreateIds |-> Idle]
  /\ GatewayIdle

DeleteNext ==
  \/ \E c \in StartQuizIds, quizId \in {QuizId, NoQuiz}, userId \in {Creator, Other} :
       StartQuizRead(c, quizId, userId)
  \/ \E c \in StartQuizIds : StartQuizSave(c)
  \/ \E c \in StartQuizIds : StartQuizReload(c)
  \/ \E c \in FinishQuizIds, quizId \in {QuizId, NoQuiz}, userId \in {Creator, Other} :
       FinishQuizRead(c, quizId, userId)
  \/ \E c \in FinishQuizIds : FinishQuizSave(c)
  \/ \E c \in DeleteQuizIds, quizId \in {QuizId, NoQuiz}, userId \in {Creator, Other} :
       DeleteQuizRead(c, quizId, userId)
  \/ \E c \in DeleteQuizIds : DeleteQuizRemove(c)

DeleteSpec == DeleteInit /\ [][DeleteNext]_vars

(***************************************************************************)
(* Properties of the teacher-only transitions.                             *)
(***************************************************************************)
\* The step begins a call (slot `old` becomes `new`) for the quiz, which has
\* a row, by a requester who is not its creator.
NotCreatorBegins(old, new) ==
  /\ Free(old)
  /\ new # old
  /\ new.quizId = QuizId
  /\ new.userId # Creator
  /\ status # Removed
\* The call has failed with Forbidden.
Refused(call) == call.pc = "done" /\ call.result = "Forbidden"

\* C11: a startQuiz, finishQuiz or deleteQuiz call for the quiz by a
\* requester other than its creator fails with Forbidden at its first read,
\* whatever the status, and leaves the status, the row of the quiz, the
\* participants and the answers as they were; no such call ever gets to
\* its write.
C11_NotCreatorForbidden ==
  [][/\ \A c \in StartQuizIds :
          /\ NotCreatorBegins(startQuizCalls[c], startQuizCalls'[c]) =>
               Refused(startQuizCalls'[c]) /\ UNCHANGED <<status, participants, answers>>
          /\ startQuizCalls'[c].pc \in {"save", "reload"} =>
               startQuizCalls'[c].userId = Creator
     /\ \A c \in FinishQuizIds :
          /\ NotCreatorBegins(finishQuizCalls[c], finishQuizCalls'[c]) =>
               Refused(finishQuizCalls'[c]) /\ UNCHANGED <<status, participants, answers>>
          /\ finishQuizCalls'[c].pc = "save" => finishQuizCalls'[c].userId = Creator
     /\ \A c \in DeleteQuizIds :
          /\ NotCreatorBegins(deleteQuizCalls[c], deleteQuizCalls'[c]) =>
               Refused(deleteQuizCalls'[c]) /\ UNCHANGED <<status, participants, answers>>
          /\ deleteQuizCalls'[c].pc = "remove" => deleteQuizCalls'[c].userId = Creator]_vars

\* C11 witness: on the finished quiz, which holds an Answer, a startQuiz, a
\* finishQuiz and a deleteQuiz call of another user have all been refused.
C11_Witness ==
  /\ status = "finished"
  /\ answers # {}
  /\ participants # {}
  /\ \E c \in StartQuizIds :
       Refused(startQuizCalls[c]) /\ startQuizCalls[c].userId = Other
  /\ \E c \in FinishQuizIds :
       Refused(finishQuizCalls[c]) /\ finishQuizCalls[c].userId = Other
  /\ \E c \in DeleteQuizIds :
       Refused(deleteQuizCalls[c]) /\ deleteQuizCalls[c].userId = Other

\* C12: the row of the quiz is never removed in a step taken while the
\* status is started, and a deleteQuiz of the creator that reads the quiz
\* as started fails with InvalidState and leaves the quiz, its participants
\* and its answers in place.
C12_NeverRemovedWhileStarted ==
  [][/\ (status' = Removed /\ status # Removed) => status # "started"
     /\ \A c \in DeleteQuizIds :
          (/\ Free(deleteQuizCalls[c])
           /\ deleteQuizCalls'[c] # deleteQuizCalls[c]
           /\ deleteQuizCalls'[c].quizId = QuizId
           /\ deleteQuizCalls'[c].userId = Creator
           /\ status = "started") =>
             /\ deleteQuizCalls'[c].pc = "done"
             /\ deleteQuizCalls'[c].result = "InvalidState"
             /\ UNCHANGED <<status, participants, answers>>]_vars

(***************************************************************************)
(* Properties of start-question.                                           *)
(***************************************************************************)
\* The step is the continuation of handleStartQuestion after its read of
\* the quiz.
StartQuestionEnds == startQuestionCalls.pc = "act" /\ startQuestionCalls' # startQuestionCalls

\* The question of the request is started: its start time is recorded, a
\* new timer for it is scheduled and registered, and start-question goes to
\* the room.
StartQuestionEffect(index) ==
  /\ questionStartTimes' = [questionStartTimes EXCEPT ![index] = now]
  /\ questionTimers'.questionIndex = index
  /\ \E t \in timeouts' \ timeouts : t.id = questionTimers'.timerId /\ t.questionIndex = index
  /\ Len(room') > Len(room)
  /\ room'[Len(room) + 1] = Event("start-question", "none", index)

\* C13: start-question succeeds only when the user id stored on the
\* connection is the creator's, the quiz was read as started and the index
\* is one of 0 .. questionCount-1, and then the question is started;
\* otherwise the caller gets {success: false} and the start times, the
\* registered timer, the scheduled timers and the room are as they were.
C13_StartQuestionPreconditions ==
  [][StartQuestionEnds =>
       /\ startQuestionCalls'.pc = "done"
       /\ startQuestionCalls'.success =>
            /\ startQuestionCalls.userId = Creator
            /\ startQuestionCalls.read = "started"
            /\ startQuestionCalls.index \in 0 .. (NumQuestions - 1)
            /\ StartQuestionEffect(startQuestionCalls.index)
       /\ (\/ startQuestionCalls.userId # Creator
           \/ startQuestionCalls.read # "started"
           \/ startQuestionCalls.index \notin 0 .. (NumQuestions - 1)) =>
            ~startQuestionCalls'.success
       /\ ~startQuestionCalls'.success =>
            UNCHANGED <<questionStartTimes, questionTimers, timeouts, room>>]_vars

\* C13 witness: while question 0 runs, a start-question request has been
\* refused for its index, and the timer of question 0 is still the
\* registered and only one.
C13_Witness ==
  /\ startQuestionCalls.pc = "done"
  /\ startQuestionCalls.error = "Validation"
  /\ status = "started"
  /\ questionTimers.questionIndex = 0
  /\ \E t \in timeouts : t.id = questionTimers.timerId
  /\ Len(room) = 3

\* The preconditions of start-question other than the time hold for the
\* request: creator, started, index in range.
StartQuestionAllowed(call) ==
  /\ call.userId = Creator
  /\ call.read = "started"
  /\ call.index \in 0 .. (NumQuestions - 1)

\* C14: with its other preconditions holding, start-question for an index
\* above 0 fails as too early (no start time recorded, no timer changed,
\* nothing sent to the room) when less than timeSeconds of question index-1
\* has passed since the start time recorded for it, and succeeds when that
\* time has passed.
C14_TooEarly ==
  [][(/\ StartQuestionEnds
      /\ StartQuestionAllowed(startQuestionCalls)
      /\ startQuestionCalls.index > 0
      /\ questionStartTimes[startQuestionCalls.index - 1] # 0) =>
        IF now - questionStartTimes[startQuestionCalls.index - 1] < TimeSeconds
        THEN /\ startQuestionCalls' = StartQuestionDone("TooEarly")
             /\ UNCHANGED <<questionStartTimes, questionTimers, timeouts, room>>
        ELSE /\ startQuestionCalls' = StartQuestionDone("ok")
             /\ StartQuestionEffect(startQuestionCalls.index)]_vars

\* C14 witness: question 1 was requested too early and refused, and
\* question 0 is still the current one with its timer pending.
C14_Witness ==
  /\ startQuestionCalls.pc = "done"
  /\ startQuestionCalls.error = "TooEarly"
  /\ questionStartTimes[0] = now
  /\ questionStartTimes[1] = 0
  /\ questionTimers.questionIndex = 0
  /\ Cardinality(timeouts) = 1

(***************************************************************************)
(* Properties of submitAnswer.                                             *)
(***************************************************************************)
\* The step is the first read of submitAnswer call c, made with the PIN of
\* the quiz.
SubmitBegins(c) ==
  /\ Free(submitCalls[c])
  /\ submitCalls'[c] # submitCalls[c]
  /\ submitCalls'[c].pc = "done" => submitCalls'[c].result # "NotFound"

\* C15: an Answer is stored only in a step taken while the status is
\* started, and a submitAnswer that reads the quiz as created or finished
\* fails with InvalidState and stores nothing.
C15_AnswerStoredOnlyWhileStarted ==
  [][/\ (answers' # answers /\ answers \subseteq answers') => status = "started"
     /\ \A c \in SubmitIds :
          (SubmitBegins(c) /\ status # "started") =>
             /\ submitCalls'[c].pc = "done"
             /\ submitCalls'[c].result = "InvalidState"
             /\ answers' = answers]_vars

(***************************************************************************)
(* RejectSpec: submitAnswer calls with every kind of argument: the PIN of  *)
(* the quiz or one no quiz has; a question of the quiz, an id no question  *)
(* has, or the draft question; a participant of the quiz, an id no         *)
(* participant has, or a participant of another quiz; any option.  The     *)
(* quiz is in any status, with or without a stored Answer.                 *)
(***************************************************************************)
RejectInit ==
  /\ status \in {"created", "started", "finished"}
  /\ participants = { ParticipantRow(p) : p \in ParticipantIds } \cup {ForeignRow}
  /\ answers \in IF status = "created" THEN {{}} ELSE {{}, {FirstAnswer}}
  /\ questionTimeCache = IF status = "started" /\ answers # {}
                         THEN AverageQuestionTime ELSE NoCache
  /\ submitCalls = [c \in SubmitIds |-> Idle]
  /\ startQuizCalls = [c \in StartQuizIds |-> Idle]
  /\ finishQuizCalls = [c \in FinishQuizIds |-> Idle]
  /\ deleteQuizCalls = [c \in DeleteQuizIds |-> Idle]
  /\ joinCalls = [c \in JoinIds |-> Idle]
  /\ quizRows = {}
  /\ createCalls = [c \in CreateIds |-> Idle]
  /\ GatewayIdle

RejectNext ==
  \/ \E c \in SubmitIds, pin \in {Pin, BadPin}, q \in {0, NoQuestion, DraftQuestion},
        p \in ParticipantIds \cup {NoParticipant, ForeignParticipant} :
       SubmitReadQuiz(c, pin, q, p)
  \/ \E c \in SubmitIds : SubmitStep(c)

RejectSpec == RejectInit /\ [][RejectNext]_vars

\* A participant row with the id exists and its recorded PIN is the given
\* one.
Resolves(pin, p) == \E r \in participants : r.id = p /\ r.pin = pin

\* The step of call c stores no Answer, leaves the status alone and
\* recomputes no tug position.
RejectsUntouched(c) ==
  /\ submitCalls'[c].pc = "done"
  /\ ~submitCalls'[c].gameFinished
  /\ answers' = answers
  /\ status' = status
  /\ questionTimeCache' = questionTimeCache

\* C16 as stated: a submitAnswer call whose PIN no quiz has, whose question
\* or participant does not exist or whose participant is recorded under
\* another PIN ends with NotFound; one for a question with no correct
\* option ends with a validation failure, and a call that gets to its
\* write chose an option of the question; every such failure stores no
\* Answer, leaves the status alone and recomputes no position.
C16_SubmitRejects ==
  [][\A c \in SubmitIds :
        /\ (/\ SubmitEnds(c)
            /\ \/ submitCalls'[c].pin # Pin
               \/ submitCalls'[c].q \notin StoredQuestions
               \/ ~Resolves(submitCalls'[c].pin, submitCalls'[c].p)) =>
              submitCalls'[c].result = "NotFound" /\ RejectsUntouched(c)
        /\ (/\ SubmitEnds(c)
            /\ submitCalls[c].pc = "existing"
            /\ correctAnswerId(submitCalls[c].q) = NoOption) =>
              submitCalls'[c].result = "Validation" /\ RejectsUntouched(c)
        /\ (submitCalls[c].pc = "existing" /\ submitCalls'[c].pc = "save") =>
              submitCalls'[c].sel \in Options(submitCalls[c].q)]_vars

\* C16 amended: submitAnswer makes its checks in order and fails at the
\* first that does not pass: NotFound when no quiz has the PIN, else
\* InvalidState when the quiz is not started, else NotFound when the
\* question does not exist, else NotFound when the participant does not
\* exist or is recorded under another PIN, else Conflict when an Answer of
\* the pair is stored, else a validation failure when the option is not
\* one of the question's or the question has no correct option; every such
\* failure stores no Answer, leaves the status alone and recomputes no
\* position.
C16_SubmitRejectsInOrder ==
  [][\A c \in SubmitIds :
        LET old == submitCalls[c]
            new == submitCalls'[c]
            Fails(r) == RejectsUntouched(c) /\ new.result = r
        IN /\ (Free(old) /\ new # old) =>
                IF new.pin # Pin THEN Fails("NotFound")
                ELSE IF status # "started" THEN Fails("InvalidState")
                ELSE new.pc = "question"
           /\ (old.pc = "question" /\ new # old) =>
                IF old.q \notin StoredQuestions THEN Fails("NotFound")
                ELSE new.pc = "participant"
           /\ (old.pc = "participant" /\ new # old) =>
                IF ~Resolves(old.pin, old.p) THEN Fails("NotFound")
                ELSE new.pc = "existing"
           /\ (old.pc = "existing" /\ new # old) =>
                IF AnswersOf(old.p, old.q) # {} THEN Fails("Conflict")
                ELSE IF correctAnswerId(old.q) = NoOption THEN Fails("Validation")
                ELSE \/ Fails("Validation")
                     \/ new.pc = "save" /\ new.sel \in Options(old.q)]_vars

\* C16 witness: on the started quiz, one call for the draft question has
\* failed validation and another for a participant recorded under another
\* PIN has failed with NotFound; no Answer is stored.
C16_Witness ==
  /\ status = "started"
  /\ answers = {}
  /\ \E c, d \in SubmitIds :
       /\ submitCalls[c].pc = "done"
       /\ submitCalls[c].q = DraftQuestion
       /\ submitCalls[c].result = "Validation"
       /\ submitCalls[d].pc = "done"
       /\ submitCalls[d].p = ForeignParticipant
       /\ submitCalls[d].pin = Pin
       /\ submitCalls[d].q = 0
       /\ submitCalls[d].result = "NotFound"

\* The position of the quiz over the participants and answers now stored.
StoredPosition == calculateTugPosition(QuizParticipants, answers, AverageQuestionTime)
\* The position is at an end of the rope and answers exist.
Dominated == Abs(StoredPosition.position) = 10000 /\ StoredPosition.hasAnswers

\* C17: a submitAnswer that stored its Answer recomputes the position over
\* the stored answers; when its absolute value is 100 and answers exist
\* the call goes on to write finished and returns gameFinished true, and
\* otherwise it returns gameFinished false and does not write the status;
\* no other step of submitAnswer writes the status.
C17_FinishExactlyOnDomination ==
  [][\A c \in SubmitIds :
        LET old == submitCalls[c]
            new == submitCalls'[c]
        IN /\ (old.pc = "tugAnswers" /\ new # old) =>
                /\ status' = status
                /\ IF Dominated THEN new.pc = "finish"
                   ELSE new.pc = "done" /\ new.result = "ok" /\ ~new.gameFinished
           /\ (old.pc = "finish" /\ new # old) =>
                /\ status' = "finished"
                /\ new.pc = "done"
                /\ new.result = "ok"
                /\ new.gameFinished
           /\ (new # old /\ old.pc # "finish") => status' = status
           /\ (SubmitEnds(c) /\ new.result = "ok") =>
                old.pc = IF new.gameFinished THEN "finish" ELSE "tugAnswers"]_vars

\* C17 witness: a call that brought the position to an end of the rope has
\* returned gameFinished true and the quiz is finished, and another that
\* did not has returned gameFinished false.
C17_Witness ==
  /\ status = "finished"
  /\ Dominated
  /\ \E c, d \in SubmitIds :
       /\ submitCalls[c].pc = "done"
       /\ submitCalls[c].result = "ok"
       /\ submitCalls[c].gameFinished
       /\ submitCalls[d].pc = "done"
       /\ submitCalls[d].result = "ok"
       /\ ~submitCalls[d].gameFinished

(***************************************************************************)
(* handleSubmitAnswer after submitAnswer returned (lines 727-768): the     *)
(* events its caller sends to the room.                                    *)
(***************************************************************************)
\* tug-position-update with the position it carries.
TugEvent(tug) ==
  [type |-> "tug-position-update", status |-> "none", index |-> NoIndex,
   position |-> tug.position, team1Score |-> tug.team1Score,
   team2Score |-> tug.team2Score, hasAnswers |-> tug.hasAnswers]

\* answer-confirmed goes to the room (line 730); emitTugPositionUpdate is
\* called (line 738).
SubmitConfirm(c) ==
  /\ submitCalls[c].pc = "done"
  /\ submitCalls[c].result = "ok"
  /\ ~submitCalls[c].announced
  /\ Emit(<<Event("answer-confirmed", "none", NoIndex)>>)
  /\ submitCalls' = [submitCalls EXCEPT ![c].pc = "tugUpdate"]
  /\ UNCHANGED <<storeVars, startQuizCalls, finishQuizCalls, deleteQuizCalls, joinCalls, now,
                 clientData, questionStartTimes, questionTimers, timeouts,
                 autoAdvanceCalls, startQuestionCalls, finishQuestionCalls,
                 finishQuizEvents, requests, createVars>>

\* emitTugPositionUpdate (lines 257-269): getQuizByPin, getTugPosition, then
\* tug-position-update; with gameFinished, getQuizByPin is called next
\* (line 746).
SubmitTugUpdate(c) ==
  /\ submitCalls[c].pc = "tugUpdate"
  /\ questionTimeCache' = IF QuizParticipants = {} THEN questionTimeCache
                          ELSE AverageQuestionTime
  /\ Emit(<<TugEvent(calculateTugPosition(QuizParticipants, answers, AverageQuestionTime))>>)
  /\ submitCalls' = [submitCalls EXCEPT ![c] =
       IF submitCalls[c].gameFinished
       THEN [submitCalls[c] EXCEPT !.pc = "gameUpdate"]
       ELSE [submitCalls[c] EXCEPT !.pc = "done", !.announced = TRUE]]
  /\ UNCHANGED <<status, participants, answers, startQuizCalls, finishQuizCalls,
                 deleteQuizCalls, joinCalls, now, clientData, questionStartTimes, questionTimers,
                 timeouts, autoAdvanceCalls, startQuestionCalls, finishQuestionCalls,
                 finishQuizEvents, requests, createVars>>

\* getQuizByPin, then game-update with the status read and no question
\* index (lines 746-749).
SubmitGameUpdate(c) ==
  /\ submitCalls[c].pc = "gameUpdate"
  /\ Emit(<<Event("game-update", status, NoIndex)>>)
  /\ submitCalls' = [submitCalls EXCEPT ![c].pc = "results"]
  /\ UNCHANGED <<storeVars, startQuizCalls, finishQuizCalls, deleteQuizCalls, joinCalls, now,
                 clientData, questionStartTimes, questionTimers, timeouts,
                 autoAdvanceCalls, startQuestionCalls, finishQuestionCalls,
                 finishQuizEvents, requests, createVars>>

\* fetchSockets, the first teacher socket with a userId, getResults for
\* that user, then quiz-results (lines 752-764); getResults refuses a user
\* who is not the creator and nothing is sent.
SubmitResults(c, teacher) ==
  /\ submitCalls[c].pc = "results"
  /\ clientData[teacher].role = "teacher"
  /\ clientData[teacher].userId # "null"
  /\ IF clientData[teacher].userId = Creator
     THEN Emit(<<ResultsEvent>>)
     ELSE room' = room
  /\ submitCalls' = [submitCalls EXCEPT ![c].pc = "done", ![c].announced = TRUE]
  /\ UNCHANGED <<storeVars, startQuizCalls, finishQuizCalls, deleteQuizCalls, joinCalls, now,
                 clientData, questionStartTimes, questionTimers, timeouts,
                 autoAdvanceCalls, startQuestionCalls, finishQuestionCalls,
                 finishQuizEvents, requests, createVars>>

(***************************************************************************)
(* WinSpec: the started quiz, its clients joined, the first participant's  *)
(* correct answer stored.  Participants submit answers over the socket,    *)
(* two at a time; an answer of the other team wins by domination.          *)
(***************************************************************************)
WinInit ==
  /\ StartedQuiz
  /\ startQuizCalls = [c \in StartQuizIds |-> Idle]
  /\ answers = {FirstAnswer}
  /\ questionTimeCache = AverageQuestionTime
  /\ now = 1
  /\ clientData = JoinedClients
  /\ questionStartTimes = [i \in QuestionIds |-> 0]
  /\ questionTimers = NoTimer
  /\ timeouts = {}
  /\ autoAdvanceCalls = {}
  /\ startQuestionCalls = Idle
  /\ finishQuestionCalls = Idle
  /\ finishQuizEvents = Idle
  /\ room = <<>>
  /\ requests = 0

\* The caller of call c has nothing left to send.
CallerDone(c) ==
  submitCalls[c].pc = "done" => (submitCalls[c].result # "ok" \/ submitCalls[c].announced)

WinNext ==
  \/ \E c \in SubmitIds, q \in QuestionIds, p \in ParticipantIds :
       CallerDone(c) /\ SubmitReadQuiz(c, Pin, q, p)
  \/ \E c \in SubmitIds : SubmitStep(c)
  \/ \E c \in SubmitIds : SubmitConfirm(c)
  \/ \E c \in SubmitIds : SubmitTugUpdate(c)
  \/ \E c \in SubmitIds : SubmitGameUpdate(c)
  \/ \E c \in SubmitIds, teacher \in ClientIds : SubmitResults(c, teacher)

WinSpec == WinInit /\ [][WinNext]_vars

\* The finished game-updates sent to the room.
FinishedUpdates ==
  { i \in DOMAIN room : room[i].type = "game-update" /\ room[i].status = "finished" }

\* submitAnswer call c has returned gameFinished true to its caller.
ReportedFinished(c) ==
  /\ submitCalls[c].pc \in {"done", "tugUpdate", "gameUpdate", "results"}
  /\ submitCalls[c].result = "ok"
  /\ submitCalls[c].gameFinished

\* C18: for one win at most one submitAnswer call returns gameFinished
\* true and at most one finished game-update is sent to the room.
C18_FinishedOnce ==
  /\ Cardinality({ c \in SubmitIds : ReportedFinished(c) }) <= 1
  /\ Cardinality(FinishedUpdates) <= 1

(***************************************************************************)
(* TugSpec: the score engine over every sequence of accepted answers.  An  *)
(* accepted submitAnswer stores one Answer of a participant of the quiz    *)
(* for a question of the quiz, with an option of the question and any      *)
(* response time; emitTugPositionUpdate sends the position to the room.    *)
(* The quiz has its participants or none.                                  *)
(***************************************************************************)
MaxTugAnswers == 3       \* answers accepted
MaxTugUpdates == 1       \* tug-position-updates sent
\* responseTimeMs of the accepted answers: at once, in time, and past the
\* question's time.
TugResponseTimes == {0, 500, 1500}

TugInit ==
  /\ status = "started"
  /\ participants \in {{}, { ParticipantRow(p) : p \in ParticipantIds }}
  /\ answers = {}
  /\ questionTimeCache = NoCache
  /\ submitCalls = [c \in SubmitIds |-> Idle]
  /\ startQuizCalls = [c \in StartQuizIds |-> Idle]
  /\ finishQuizCalls = [c \in FinishQuizIds |-> Idle]
  /\ deleteQuizCalls = [c \in DeleteQuizIds |-> Idle]
  /\ joinCalls = [c \in JoinIds |-> Idle]
  /\ quizRows = {}
  /\ createCalls = [c \in CreateIds |-> Idle]
  /\ GatewayIdle

\* The row an accepted submitAnswer stores (lines 374-384 of part_003).
StoreAnswer(p, q, sel, rt) ==
  /\ Cardinality(answers) < MaxTugAnswers
  /\ \E r \in QuizParticipants : r.id = p
  /\ AnswersOf(p, q) = {}
  /\ SubmitOptionCheck(q, sel) = "ok"
  /\ answers' = answers \cup
       {[id |-> Cardinality(answers) + 1, participantId |-> p, questionId |-> q,
         selectedOptionId |-> sel, isCorrect |-> (correctAnswerId(q) = sel),
         responseTimeMs |-> rt]}
  /\ UNCHANGED <<status, participants, questionTimeCache, serviceVars, gatewayVars, createVars>>

\* getAverageQuestionTime (lines 126-148 of tug-of-war.service.ts): the
\* cached mean when the cache has one, the mean of the questions' timeSeconds
\* otherwise.
getAverageQuestionTime ==
  IF questionTimeCache # NoCache THEN questionTimeCache ELSE AverageQuestionTime

\* emitTugPositionUpdate (lines 257-269 of quiz.entity.ts).
EmitTugPositionUpdate ==
  /\ Len(room) < MaxTugUpdates
  /\ questionTimeCache' = IF QuizParticipants = {} THEN questionTimeCache
                          ELSE getAverageQuestionTime
  /\ Emit(<<TugEvent(calculateTugPosition(QuizParticipants, answers, getAverageQuestionTime))>>)
  /\ UNCHANGED <<status, participants, answers, serviceVars, now, clientData,
                 questionStartTimes, questionTimers, timeouts, autoAdvanceCalls,
                 startQuestionCalls, finishQuestionCalls, finishQuizEvents, requests, createVars>>

TugNext ==
  \/ \E p \in ParticipantIds, q \in QuestionIds, sel \in OptionIds, rt \in TugResponseTimes :
       StoreAnswer(p, q, sel, rt)
  \/ EmitTugPositionUpdate

TugSpec == TugInit /\ [][TugNext]_vars

\* The tug-position-updates sent to the room.
TugUpdates == { i \in DOMAIN room : room[i].type = "tug-position-update" }

\* C19: the position calculateTugPosition returns over the stored answers,
\* and the position every tug-position-update carries, lies in -100 .. 100
\* (in hundredths: -10000 .. 10000).
C19_PositionInRange ==
  /\ StoredPosition.position \in -10000 .. 10000
  /\ \A i \in TugUpdates : room[i].position \in -10000 .. 10000

\* C19 witness: both teams have answered, one has three times the other's
\* score or more, and the update sent carries the position 100 or -100.
C19_Witness ==
  /\ TeamAnswers(QuizParticipants, answers, 1) # {}
  /\ TeamAnswers(QuizParticipants, answers, 2) # {}
  /\ \E i \in TugUpdates : Abs(room[i].position) = 10000

\* What getTugPosition returns when there is nothing to pull.
NoTug == [position |-> 0, team1Score |-> 0, team2Score |-> 0, hasAnswers |-> FALSE]

Score1(ps) == TeamScore(ps, answers, AverageQuestionTime, 1)
Score2(ps) == TeamScore(ps, answers, AverageQuestionTime, 2)

ExampleTimeSeconds == 30    \* timeSeconds of the documented example question
LongTimeSeconds == 1046     \* timeSeconds of a question of seventeen minutes
OpenTimeSeconds == 140001   \* timeSeconds of a question left open for days
\* The mean of the timeSeconds of questions that all last `seconds`.
QuestionTime(seconds) == <<seconds, 1>>
\* responseTimeMs of the accepted answers.
RopeResponseTimes == {800, 900, 5000, 29954, 695900}

RopeInit ==
  /\ status = "started"
  /\ participants = { ParticipantRow(p) : p \in ParticipantIds }
  /\ answers = {}
  /\ questionTimeCache \in {QuestionTime(ExampleTimeSeconds), QuestionTime(LongTimeSeconds),
                           QuestionTime(OpenTimeSeconds)}
  /\ submitCalls = [c \in SubmitIds |-> Idle]
  /\ startQuizCalls = [c \in StartQuizIds |-> Idle]
  /\ finishQuizCalls = [c \in FinishQuizIds |-> Idle]
  /\ deleteQuizCalls = [c \in DeleteQuizIds |-> Idle]
  /\ joinCalls = [c \in JoinIds |-> Idle]
  /\ quizRows = {}
  /\ createCalls = [c \in CreateIds |-> Idle]
  /\ GatewayIdle

RopeNext ==
  \/ \E p \in ParticipantIds, q \in QuestionIds, sel \in OptionIds, rt \in RopeResponseTimes :
       StoreAnswer(p, q, sel, rt)
  \/ EmitTugPositionUpdate

RopeSpec == RopeInit /\ [][RopeNext]_vars

\* What getTugPosition returns now, and the two scores it is computed from.
RopePosition == calculateTugPosition(QuizParticipants, answers, getAverageQuestionTime)
RopeScore(t) == TeamScore(QuizParticipants, answers, getAverageQuestionTime, t)
LeadingScore == Max(RopeScore(1), RopeScore(2))
TrailingScore == Min(RopeScore(1), RopeScore(2))

\* C22: the position is 100 or -100 only if both scores are positive and
\* the leading score is at least three times the trailing one; with a
\* smaller lead the absolute position is below 100.
C22_FullOnlyAtThreeToOne ==
  /\ Abs(RopePosition.position) = 10000 =>
       TrailingScore > 0 /\ LeadingScore >= 3 * TrailingScore
  /\ LeadingScore < 3 * TrailingScore => Abs(RopePosition.position) < 10000

\* determineWinner (lines 220-224): team 1, team 2, or 0 for no winner.
determineWinner(tug) ==
  IF tug.position > 0 THEN 1 ELSE IF tug.position < 0 THEN 2 ELSE 0

\* C23: the sign of the position is the sign of team1Score - team2Score, so
\* determineWinner names the team with the strictly higher score, and no
\* winner exactly when the scores are equal.
C23_WinnerHasHigherScore ==
  /\ Sign(RopePosition.position) = Sign(RopeScore(1) - RopeScore(2))
  /\ determineWinner(RopePosition) =
       IF RopeScore(1) > RopeScore(2) THEN 1
       ELSE IF RopeScore(2) > RopeScore(1) THEN 2 ELSE 0

\* The answers of team t, and the time its answers left unused: max(0,
\* maxTimeSeconds - mean response time), times 1000 n l for n answers and
\* the mean timeSeconds t / l.
RopeAnswers(t) == TeamAnswers(QuizParticipants, answers, t)
UnusedTime(S) ==
  Max(0, 1000 * getAverageQuestionTime[1] * Cardinality(S)
           - SumResponseTime(S) * getAverageQuestionTime[2])
\* n l for the answers S.
Weight(S) == Cardinality(S) * getAverageQuestionTime[2]
\* One correct answer at 5000 ms in a quiz with a mean of 30 s.
DocumentedExample(S) ==
  /\ getAverageQuestionTime = QuestionTime(ExampleTimeSeconds)
  /\ Cardinality(S) = 1
  /\ \A a \in S : a.isCorrect /\ a.responseTimeMs = 5000

\* C24 as stated: a team's score is round(correctCount * 50 + avgSpeed * 10)
\* with avgSpeed = max(0, maxTimeSeconds - mean response time in seconds)
\* over the team's answers, 0 for no answers; it is never negative, and
\* the documented example gives 300.
C24_TeamScoreUnrounded ==
  \A t \in {1, 2} :
    LET S == RopeAnswers(t)
        c == calculateCorrectAnswers(S)
        s == RopeScore(t)
    IN /\ s >= 0
       /\ S = {} => s = 0
       /\ DocumentedExample(S) => s = 300
       /\ S # {} =>
            /\ 200 * Weight(S) * s <= 2 * (5000 * c * Weight(S) + UnusedTime(S)) + 100 * Weight(S)
            /\ 2 * (5000 * c * Weight(S) + UnusedTime(S)) + 100 * Weight(S) < 200 * Weight(S) * (s + 1)

\* C24 amended: the same with avgSpeed rounded to two decimals before it is
\* multiplied by 10: the score s is the rounding of 50 correctCount + h / 10
\* for the number h of hundredths that is the rounding of the unused time.
C24_TeamScore ==
  \A t \in {1, 2} :
    LET S == RopeAnswers(t)
        c == calculateCorrectAnswers(S)
        s == RopeScore(t)
    IN /\ s >= 0
       /\ S = {} => s = 0
       /\ DocumentedExample(S) => s = 300
       /\ S # {} =>
            \E k \in 0 .. 9 :
              LET h == 10 * s - 500 * c - 5 + k
              IN /\ h >= 0
                 /\ 20 * Weight(S) * h <= 2 * UnusedTime(S) + 10 * Weight(S)
                 /\ 2 * UnusedTime(S) + 10 * Weight(S) < 20 * Weight(S) * (h + 1)

\* C24 witness: team 1 has the documented example's answer and the score
\* 300, sent in a tug-position-update, and team 2 has an answer given
\* after the time ran out and the score 0.
C24_Witness ==
  /\ DocumentedExample(RopeAnswers(1))
  /\ RopeScore(1) = 300
  /\ RopeAnswers(2) # {}
  /\ \A a \in RopeAnswers(2) : a.responseTimeMs > 1000 * ExampleTimeSeconds
  /\ RopeScore(2) = 0
  /\ \E i \in TugUpdates : room[i].team1Score = 300 /\ room[i].team2Score = 0

(***************************************************************************)
(* QuizGateway: connections.  handleConnection (lines 153-166),            *)
(* handleJoinQuiz (271-356), handleDisconnect (168-199) and                *)
(* cleanupInactiveConnections (119-144), which setInterval runs every      *)
(* minute (lines 110-113).                                                 *)
(***************************************************************************)
InactiveTimeoutSeconds == 300   \* INACTIVE_TIMEOUT_MS = 5 * 60 * 1000
SweepIntervalSeconds == 60      \* setInterval(..., 60000)

\* The join-quiz message a client sends: the creator and another user as
\* teacher under their own user ids, the student with a participant id.
JoinData(client) ==
  CASE client = "creator" -> [role |-> "teacher", userId |-> Creator, participantId |-> NoParticipant]
    [] client = "other"   -> [role |-> "teacher", userId |-> Other, participantId |-> NoParticipant]
    [] client = "student" -> [role |-> "student", userId |-> "null", participantId |-> 1]

\* handleConnection: the tags are set to null and the activity is recorded.
\* A socket id is not used again while anything of its last use is left.
HandleConnection(client) ==
  /\ clientData[client] = NoClient
  /\ clientData' = [clientData EXCEPT ![client] =
       [NoClient EXCEPT !.connected = TRUE, !.lastActivity = now]]
  /\ UNCHANGED <<storeVars, serviceVars, now, questionStartTimes, questionTimers,
                 timeouts, autoAdvanceCalls, startQuestionCalls, finishQuestionCalls,
                 finishQuizEvents, room, requests, createVars>>

\* join-quiz arrives: getQuizByPin reads the quiz (line 288).
JoinQuizRead(client, pin) ==
  /\ clientData[client].connected
  /\ clientData[client].join = NoJoin
  /\ clientData' = [clientData EXCEPT ![client].join =
       [pc |-> "act", pin |-> pin, role |-> JoinData(client).role,
        userId |-> JoinData(client).userId,
        participantId |-> JoinData(client).participantId,
        read |-> IF pin = Pin /\ status # Removed THEN status ELSE "NotFound"]]
  /\ UNCHANGED <<storeVars, serviceVars, now, questionStartTimes, questionTimers,
                 timeouts, autoAdvanceCalls, startQuestionCalls, finishQuestionCalls,
                 finishQuizEvents, room, requests, createVars>>

\* The join is one of a teacher whose user id is not the creator's (lines
\* 309-314).
JoinMismatch(j) == j.role = "teacher" /\ j.userId # "null" /\ j.userId # Creator

\* After the quiz was found (lines 290-345): the socket joins the room and
\* pinRooms, its tags and its activity are stored, and then the user id of
\* a teacher is compared with the creator's: on a mismatch an error goes to
\* the client and the handler returns.  Otherwise participants-update and
\* quiz-state go to the client, and for a quiz read as started or finished
\* getTugPosition is called.
JoinQuizStore(client, j) ==
  [clientData[client] EXCEPT
     !.rooms = @ \cup {j.pin}, !.pinRooms = @ \cup {j.pin}, !.pin = j.pin,
     !.role = j.role, !.userId = j.userId, !.participantId = j.participantId,
     !.lastActivity = now,
     !.join = IF JoinMismatch(j) THEN NoJoin
              ELSE IF j.read \in {"started", "finished"} THEN [pc |-> "tug"]
              ELSE NoJoin]

\* The handler goes on after getQuizByPin: the quiz was not found and an
\* error goes to the client, or the join is stored.
JoinQuizAct(client) ==
  /\ clientData[client].join.pc = "act"
  /\ LET j == clientData[client].join
     IN clientData' = [clientData EXCEPT ![client] =
          IF j.read = "NotFound" THEN [clientData[client] EXCEPT !.join = NoJoin]
          ELSE JoinQuizStore(client, j)]
  /\ UNCHANGED <<storeVars, serviceVars, now, questionStartTimes, questionTimers,
                 timeouts, autoAdvanceCalls, startQuestionCalls, finishQuestionCalls,
                 finishQuizEvents, room, requests, createVars>>

\* getTugPosition (line 336), then tug-position-update to the client.
JoinQuizTug(client) ==
  /\ clientData[client].join.pc = "tug"
  /\ questionTimeCache' = IF QuizParticipants = {} THEN questionTimeCache
                          ELSE getAverageQuestionTime
  /\ clientData' = [clientData EXCEPT ![client].join = NoJoin]
  /\ UNCHANGED <<status, participants, answers, serviceVars, now, questionStartTimes,
                 questionTimers, timeouts, autoAdvanceCalls, startQuestionCalls,
                 finishQuestionCalls, finishQuizEvents, room, requests, createVars>>

\* A handleDisconnect that would leave the tags on the socket.
Disconnected_TagsLeft(socket) ==
  [socket EXCEPT !.connected = FALSE, !.rooms = {}, !.pinRooms = {}, !.lastActivity = 0]

\* What handleDisconnect leaves of a socket: out of every room and of
\* pinRooms, tags null, no activity record; a join-quiz in flight goes on.
Disconnected(socket) == [NoClient EXCEPT !.join = socket.join]

\* handleDisconnect.
HandleDisconnect(client) ==
  /\ clientData[client].connected
  /\ clientData' = [clientData EXCEPT ![client] = Disconnected(clientData[client])]
  /\ UNCHANGED <<storeVars, serviceVars, now, questionStartTimes, questionTimers,
                 timeouts, autoAdvanceCalls, startQuestionCalls, finishQuestionCalls,
                 finishQuizEvents, room, requests, createVars>>

(***************************************************************************)
(* ConnectSpec: the started quiz and three connected sockets that have not *)
(* joined.  They join and send the teacher's requests.                     *)
(***************************************************************************)
ConnectInit ==
  /\ status = "started"
  /\ participants = { ParticipantRow(p) : p \in ParticipantIds }
  /\ answers = {}
  /\ questionTimeCache = NoCache
  /\ submitCalls = [c \in SubmitIds |-> Idle]
  /\ startQuizCalls = [c \in StartQuizIds |-> Idle]
  /\ finishQuizCalls = [c \in FinishQuizIds |-> Idle]
  /\ deleteQuizCalls = [c \in DeleteQuizIds |-> Idle]
  /\ joinCalls = [c \in JoinIds |-> Idle]
  /\ quizRows = {}
  /\ createCalls = [c \in CreateIds |-> Idle]
  /\ now = 1
  /\ clientData = [c \in ClientIds |-> [NoClient EXCEPT !.connected = TRUE, !.lastActivity = 1]]
  /\ questionStartTimes = [i \in QuestionIds |-> 0]
  /\ questionTimers = NoTimer
  /\ timeouts = {}
  /\ autoAdvanceCalls = {}
  /\ startQuestionCalls = Idle
  /\ finishQuestionCalls = Idle
  /\ finishQuizEvents = Idle
  /\ room = <<>>
  /\ requests = 0

ConnectNext ==
  \/ \E client \in ClientIds : JoinQuizRead(client, Pin)
  \/ \E client \in ClientIds : JoinQuizAct(client)
  \/ \E client \in ClientIds : JoinQuizTug(client)
  \/ \E client \in ClientIds, index \in RequestIndexes : StartQuestionRead(client, index)
  \/ StartQuestionReject
  \/ StartQuestionStart
  \/ \E client \in ClientIds : FinishQuestionRead(client)
  \/ FinishQuestionAct
  \/ FinishQuestionFinish
  \/ FinishQuestionTug
  \/ FinishQuestionResults
  \/ \E client \in ClientIds : FinishQuizEventRead(client, QuizId, JoinData(client).userId)
  \/ FinishQuizEventFinish
  \/ FinishQuizEventClear
  \/ FinishQuizEventTug
  \/ FinishQuizEventResults

ConnectSpec == ConnectInit /\ [][ConnectNext]_vars

\* C25: after a join-quiz with role teacher under a user id that is not the
\* creator's, the socket is not in the quiz's room, nor in pinRooms, and is
\* not tagged teacher; and the steps of a finish-question sent from a
\* socket tagged with such a user id send nothing to the room and leave the
\* status and the question timers alone.
C25_MismatchedTeacherRejected ==
  [][/\ \A client \in ClientIds :
          LET j == clientData[client].join
              new == clientData'[client]
          IN (j.pc = "act" /\ new.join # j /\ JoinMismatch(j)) =>
               /\ Pin \notin new.rooms
               /\ Pin \notin new.pinRooms
               /\ new.role # "teacher"
     /\ (/\ finishQuestionCalls.pc # "idle"
         /\ finishQuestionCalls.userId # Creator
         /\ finishQuestionCalls' # finishQuestionCalls) =>
          /\ room' = room
          /\ UNCHANGED <<status, questionTimers, timeouts>>]_vars

(***************************************************************************)
(* cleanupInactiveConnections and SweepSpec: the started quiz with one     *)
(* answer stored and the timer of question 0 pending; the creator and the  *)
(* student have joined, a third socket is connected and has not joined.    *)
(* Time passes a minute at a time, with the sweep at the end of it.        *)
(***************************************************************************)
MaxSweeps == 6

\* Line 129: no PIN tag, an activity record, and more than the timeout
\* since; only the server's connected sockets are looked at (line 125).
Inactive(socket, time) ==
  /\ socket.connected
  /\ socket.pin = "null"
  /\ socket.lastActivity # 0
  /\ time - socket.lastActivity > InactiveTimeoutSeconds

\* The interval elapses and cleanupInactiveConnections runs:
\* socket.disconnect(true) runs handleDisconnect for each inactive socket,
\* then its activity record is deleted.
cleanupInactiveConnections ==
  /\ now < 1 + MaxSweeps * SweepIntervalSeconds
  /\ now' = now + SweepIntervalSeconds
  /\ clientData' = [c \in ClientIds |->
       IF Inactive(clientData[c], now') THEN Disconnected(clientData[c])
       ELSE clientData[c]]
  /\ UNCHANGED <<storeVars, serviceVars, questionStartTimes, questionTimers,
                 timeouts, autoAdvanceCalls, startQuestionCalls, finishQuestionCalls,
                 finishQuizEvents, room, requests, createVars>>

\* The timer that start-question registered for question 0 at time 1.
FirstTimer == [id |-> 1, questionIndex |-> 0, due |-> 1 + TimeSeconds + GraceSeconds]

SweepInit ==
  /\ status = "started"
  /\ participants = { ParticipantRow(p) : p \in ParticipantIds }
  /\ answers = {FirstAnswer}
  /\ questionTimeCache = NoCache
  /\ submitCalls = [c \in SubmitIds |-> Idle]
  /\ startQuizCalls = [c \in StartQuizIds |-> Idle]
  /\ finishQuizCalls = [c \in FinishQuizIds |-> Idle]
  /\ deleteQuizCalls = [c \in DeleteQuizIds |-> Idle]
  /\ joinCalls = [c \in JoinIds |-> Idle]
  /\ quizRows = {}
  /\ createCalls = [c \in CreateIds |-> Idle]
  /\ now = 1
  /\ clientData = [c \in ClientIds |->
       CASE c = "creator" -> Joined("teacher", Creator, NoParticipant)
         [] c = "student" -> Joined("student", "null", 1)
         [] c = "other"   -> [NoClient EXCEPT !.connected = TRUE, !.lastActivity = 1]]
  /\ questionStartTimes = [i \in QuestionIds |-> IF i = 0 THEN 1 ELSE 0]
  /\ questionTimers = Registered(FirstTimer)
  /\ timeouts = {FirstTimer}
  /\ autoAdvanceCalls = {}
  /\ startQuestionCalls = Idle
  /\ finishQuestionCalls = Idle
  /\ finishQuizEvents = Idle
  /\ room = <<>>
  /\ requests = 0

\* The creator and the student leave by themselves; the third socket stays
\* until the sweep ends it.  The student and the third socket come back
\* and send join-quiz with the quiz's PIN or with a PIN of no quiz.
SweepNext ==
  \/ \E client \in {"student", "other"} : HandleConnection(client)
  \/ \E client \in {"student", "other"}, pin \in {Pin, BadPin} : JoinQuizRead(client, pin)
  \/ \E client \in ClientIds : JoinQuizAct(client)
  \/ \E client \in ClientIds : JoinQuizTug(client)
  \/ \E client \in {"creator", "student"} : HandleDisconnect(client)
  \/ cleanupInactiveConnections
  \/ \E t \in timeouts : TimerFire(t)
  \/ \E h \in autoAdvanceCalls : AutoAdvanceStep(h)

SweepSpec == SweepInit /\ [][SweepNext]_vars

\* The socket has not joined a quiz: it has sent no join-quiz that found
\* the quiz, or its join-quiz was refused as one of a teacher who is not
\* the creator.
Unjoined(socket) == socket.pin = "null" \/ JoinMismatch(socket)

\* C26: no connected socket that has not joined a quiz is ever left with
\* an activity record older than five minutes: the sweep that runs when
\* the sixth minute ends disconnects it; and a sweep leaves every socket
\* that has joined exactly as it was, however old its activity record.
C26_SweepEndsIdleUnjoined ==
  /\ [](\A c \in ClientIds :
          (clientData[c].connected /\ Unjoined(clientData[c])) =>
             now - clientData[c].lastActivity <= InactiveTimeoutSeconds)
  /\ [][now' # now =>
          \A c \in ClientIds :
            ~Unjoined(clientData[c]) => clientData'[c] = clientData[c]]_vars

\* C27: a step that disconnects a socket (handleDisconnect, by itself or
\* from the sweep) leaves it in no room and in no pinRooms entry, with
\* role, userId, pin and participantId null and no activity record, and
\* changes neither the quiz's status, its participants, the stored answers,
\* the question start times nor the question timers.
C27_DisconnectClearsOnlyTheSocket ==
  [][\A c \in ClientIds :
       (clientData[c].connected /\ ~clientData'[c].connected) =>
          /\ clientData'[c].rooms = {}
          /\ clientData'[c].pinRooms = {}
          /\ clientData'[c].role = "null"
          /\ clientData'[c].userId = "null"
          /\ clientData'[c].pin = "null"
          /\ clientData'[c].participantId = NoParticipant
          /\ clientData'[c].lastActivity = 0
          /\ UNCHANGED <<status, participants, answers, questionStartTimes,
                         questionTimers, timeouts>>]_vars

\* The teacher and the student have left by themselves and the sweep has
\* ended the third socket, while the quiz is started, the answer is stored
\* and the timer of question 0 is pending.
C27_Witness ==
  /\ \A c \in ClientIds : ~clientData[c].connected
  /\ now > 1 + InactiveTimeoutSeconds
  /\ status = "started"
  /\ answers # {}
  /\ questionStartTimes[0] = 1
  /\ questionTimers = Registered(FirstTimer)
  /\ FirstTimer \in timeouts

(***************************************************************************)
(* Failed requests and the room.                                           *)
(***************************************************************************)
\* The handler of finish-question is past line 831: question-finished has
\* gone to the room.
QuestionFinishedSent == finishQuestionCalls.pc \in {"finish", "tug", "results"}

\* The step in which finishQuiz throws and handleFinishQuestion's catch
\* sends the error to the client (lines 848, 872-874).
FinishQuestionFails ==
  /\ finishQuestionCalls.pc = "finish"
  /\ FinishQuizCheck(QuizId, finishQuestionCalls.userId) # "ok"
  /\ finishQuestionCalls' = Idle

\* C28: a start-question or finish-quiz that fails sends nothing to the
\* room, and a finish-question that fails has sent nothing to the room.
C28_FailedRequestBroadcastsNothing ==
  [][/\ (startQuestionCalls.pc = "act" /\ startQuestionCalls'.pc = "done"
         /\ ~startQuestionCalls'.success) => room' = room
     /\ (finishQuizEvents.pc = "finish" /\ finishQuizEvents' = Idle) => room' = room
     /\ FinishQuestionFails => (room' = room /\ ~QuestionFinishedSent)]_vars

(***************************************************************************)
(* The events of one accepted answer.  OrderSpec: WinSpec's quiz with the  *)
(* answers submitted over the socket or over HTTP                          *)
(* (StudentQuizController.submitAnswer, lines 133-166, sends the same      *)
(* events up to the game-update and then returns), and a startQuiz call    *)
(* that read the quiz as created still waiting to save.                    *)
(***************************************************************************)
\* StudentQuizController.submitAnswer returns after its game-update (lines
\* 160-165): it sends no quiz-results.  handleSubmitAnswer does the same
\* when no teacher socket with a user id is in the room (line 759).
ControllerSubmitReturn(c) ==
  /\ submitCalls[c].pc = "results"
  /\ submitCalls' = [submitCalls EXCEPT ![c].pc = "done", ![c].announced = TRUE]
  /\ UNCHANGED <<storeVars, startQuizCalls, finishQuizCalls, deleteQuizCalls, joinCalls, gatewayVars, createVars>>

OrderInit ==
  /\ status = "started"
  /\ participants = { ParticipantRow(p) : p \in ParticipantIds }
  /\ submitCalls = [c \in SubmitIds |-> Idle]
  /\ startQuizCalls = [c \in StartQuizIds |-> IF c = 1 THEN StaleStartQuiz ELSE Idle]
  /\ finishQuizCalls = [c \in FinishQuizIds |-> Idle]
  /\ deleteQuizCalls = [c \in DeleteQuizIds |-> Idle]
  /\ joinCalls = [c \in JoinIds |-> Idle]
  /\ quizRows = {}
  /\ createCalls = [c \in CreateIds |-> Idle]
  /\ answers = {FirstAnswer}
  /\ questionTimeCache = AverageQuestionTime
  /\ now = 1
  /\ clientData = JoinedClients
  /\ questionStartTimes = [i \in QuestionIds |-> 0]
  /\ questionTimers = NoTimer
  /\ timeouts = {}
  /\ autoAdvanceCalls = {}
  /\ startQuestionCalls = Idle
  /\ finishQuestionCalls = Idle
  /\ finishQuizEvents = Idle
  /\ room = <<>>
  /\ requests = 0

\* Answers to question 0; quiz-results, when sent, are those of the
\* creator's socket.
OrderNext ==
  \/ \E c \in SubmitIds, p \in ParticipantIds :
       CallerDone(c) /\ SubmitReadQuiz(c, Pin, 0, p)
  \/ \E c \in SubmitIds : SubmitStep(c)
  \/ \E c \in SubmitIds : SubmitConfirm(c)
  \/ \E c \in SubmitIds : SubmitTugUpdate(c)
  \/ \E c \in SubmitIds : SubmitGameUpdate(c)
  \/ \E c \in SubmitIds : SubmitResults(c, "creator")
  \/ \E c \in SubmitIds : ControllerSubmitReturn(c)
  \/ \E c \in StartQuizIds : StartQuizSave(c)
  \/ \E c \in StartQuizIds : StartQuizReload(c)

OrderSpec == OrderInit /\ [][OrderNext]_vars

\* The caller of call c goes on from position `from`.
CallerLeaves(c, from) == submitCalls[c].pc = from /\ submitCalls'[c].pc # from

\* C29: the caller of an accepted answer sends, one after the other:
\* answer-confirmed, with the answer stored; tug-position-update computed
\* over answers that include it; and, when the answer finished the quiz,
\* the finished game-update and then quiz-results.
C29_AnswerEventsInOrder ==
  [][\A c \in SubmitIds :
       LET call == submitCalls[c]
           sent == IF Len(room') = Len(room) + 1 THEN room'[Len(room')]
                   ELSE Event("none", "none", NoIndex)
       IN /\ (/\ call.pc = "done"
              /\ call.result = "ok"
              /\ ~call.announced
              /\ CallerLeaves(c, "done")) =>
               /\ sent.type = "answer-confirmed"
               /\ AnswersOf(call.p, call.q) # {}
               /\ submitCalls'[c].pc = "tugUpdate"
          /\ CallerLeaves(c, "tugUpdate") =>
               /\ sent.type = "tug-position-update"
               /\ sent.hasAnswers
               /\ AnswersOf(call.p, call.q) # {}
               /\ submitCalls'[c].pc = IF call.gameFinished THEN "gameUpdate" ELSE "done"
          /\ CallerLeaves(c, "gameUpdate") =>
               /\ sent = Event("game-update", "finished", NoIndex)
               /\ submitCalls'[c].pc = "results"
          /\ CallerLeaves(c, "results") => sent = ResultsEvent]_vars

(***************************************************************************)
(* QuizzesService.joinQuiz (part_003 lines 126-164) and JoinSpec: students *)
(* join the quiz by PIN over HTTP, several calls at a time.  The           *)
(* Participant entity (part_002 lines 11-48) has indexes on quizId and     *)
(* pin and no unique constraint on (pin, name).                            *)
(***************************************************************************)
Names == 1 .. MaxNames

\* participantRepository.findOne({where: {pin, name}}) (line 138).
NamedParticipants(pin, name) == { r \in participants : r.pin = pin /\ r.name = name }

\* The check on the quiz read by PIN (lines 127-135).
JoinQuizCheck(pin, st) ==
  IF pin # Pin \/ st = Removed THEN "NotFound"
  ELSE IF st = "finished" THEN "InvalidState"
  ELSE "ok"

\* The check on the participant read by PIN and name (lines 142-144).
JoinNameCheck(pin, name) ==
  IF NamedParticipants(pin, name) # {} THEN "Conflict" ELSE "ok"

JoinDone(call, r) ==
  [pc |-> "done", result |-> r, pin |-> call.pin, name |-> call.name, team |-> call.team]

\* findOne quiz by PIN (line 127).
JoinRead(c, pin, name, team) ==
  /\ Free(joinCalls[c])
  /\ LowerBusy(joinCalls, c)
  /\ Cardinality(participants) < MaxJoined \/ NamedParticipants(pin, name) # {}
  /\ LET r == JoinQuizCheck(pin, status)
         call == [pc |-> "existing", pin |-> pin, name |-> name, team |-> team]
     IN joinCalls' = [joinCalls EXCEPT ![c] = IF r = "ok" THEN call ELSE JoinDone(call, r)]
  /\ UNCHANGED <<storeVars, submitCalls, startQuizCalls, finishQuizCalls,
                 deleteQuizCalls, gatewayVars, createVars>>

\* findOne participant by PIN and name (lines 138-144).
JoinReadExisting(c) ==
  /\ joinCalls[c].pc = "existing"
  /\ LET call == joinCalls[c]
         r == JoinNameCheck(call.pin, call.name)
     IN joinCalls' = [joinCalls EXCEPT ![c] =
          IF r = "ok" THEN [call EXCEPT !.pc = "save"] ELSE JoinDone(call, r)]
  /\ UNCHANGED <<storeVars, submitCalls, startQuizCalls, finishQuizCalls,
                 deleteQuizCalls, gatewayVars, createVars>>

\* The id @BeforeInsert generates (part_002 lines 16-21): one no row has.
FreshParticipantId ==
  CHOOSE id \in 1 .. (Cardinality(participants) + 1) :
    \A r \in participants : r.id # id

\* participantRepository.save(participant) (lines 146-153): the insert.
JoinSave(c) ==
  /\ joinCalls[c].pc = "save"
  /\ LET call == joinCalls[c]
     IN /\ participants' = participants \cup
             {[id |-> FreshParticipantId, name |-> call.name, team |-> call.team,
               pin |-> call.pin, quizId |-> QuizId]}
        /\ joinCalls' = [joinCalls EXCEPT ![c] = JoinDone(call, "ok")]
  /\ UNCHANGED <<status, answers, questionTimeCache, submitCalls, startQuizCalls,
                 finishQuizCalls, deleteQuizCalls, gatewayVars, createVars>>

\* The quiz before or after its game, with the first participant joined.
JoinInit ==
  /\ status \in {"created", "started", "finished"}
  /\ participants = {ParticipantRow(1)}
  /\ answers = {}
  /\ questionTimeCache = NoCache
  /\ submitCalls = [c \in SubmitIds |-> Idle]
  /\ startQuizCalls = [c \in StartQuizIds |-> Idle]
  /\ finishQuizCalls = [c \in FinishQuizIds |-> Idle]
  /\ deleteQuizCalls = [c \in DeleteQuizIds |-> Idle]
  /\ joinCalls = [c \in JoinIds |-> Idle]
  /\ quizRows = {}
  /\ createCalls = [c \in CreateIds |-> Idle]
  /\ GatewayIdle

JoinNext ==
  \/ \E c \in JoinIds, pin \in {Pin, BadPin}, name \in Names, team \in {1, 2} :
       JoinRead(c, pin, name, team)
  \/ \E c \in JoinIds : JoinReadExisting(c)
  \/ \E c \in JoinIds : JoinSave(c)

JoinSpec == JoinInit /\ [][JoinNext]_vars

\* C30: no two participant rows have the same PIN and the same name; a
\* joinQuiz that begins with its name taken under the PIN ends with an
\* error, and a joinQuiz adds its row only while no row has its name under
\* the PIN, so that of two calls with the same PIN and name at most one
\* succeeds.
C30_NameUniqueInPin ==
  /\ [](\A r1, r2 \in participants :
          (r1.pin = r2.pin /\ r1.name = r2.name) => r1 = r2)
  /\ [][\A c \in JoinIds :
          /\ (joinCalls[c].pc = "existing" /\ joinCalls'[c].pc = "save") =>
               NamedParticipants(joinCalls[c].pin, joinCalls[c].name) = {}
          /\ (joinCalls[c].pc = "save" /\ joinCalls'[c].pc = "done") =>
               /\ NamedParticipants(joinCalls[c].pin, joinCalls[c].name) = {}
               /\ joinCalls'[c].result = "ok"
          /\ (joinCalls'[c].pc = "done" /\ joinCalls'[c] # joinCalls[c]
              /\ joinCalls'[c].result # "ok") => participants' = participants]_vars

(***************************************************************************)
(* QuizzesService.createQuiz and generateUniquePin (part_003 lines 31-104) *)
(* and CreateSpec: teachers create quizzes, several calls at a time, next  *)
(* to the quiz that exists.  Quiz.pin is a unique column (quiz.entity.ts   *)
(* lines 28-30); createQuiz runs in no transaction.                        *)
(***************************************************************************)
\* The PINs Math.random draws (line 36): the existing quiz's and two more.
CandidatePins == {Pin, OtherPin, "333333"}

\* The option orders of every question of a CreateQuizDto, and the orders
\* its correctAnswerOrder may name: CreateQuestionDto asks for an integer
\* of at least 1 and does not compare it with the options.
DtoOptionOrders == 1 .. NumOptions
CorrectAnswerOrders == {1, NumOptions + 1}
\* createQuizDto.questions: at least one question (ArrayMinSize(1)), each
\* given by its correctAnswerOrder.
CreateQuizDtos ==
  UNION { [1 .. n -> CorrectAnswerOrders] : n \in 1 .. NumQuestions }

\* quizRepository.findOne({where: {pin}}): a quiz with the PIN exists.
PinTaken(pin) ==
  \/ pin = Pin /\ status # Removed
  \/ \E row \in quizRows : row.pin = pin

CreateDone(call, r) == [pc |-> "done", result |-> r, pin |-> call.pin, dto |-> call.dto]

\* createQuiz is called; generateUniquePin begins.
CreateBegin(c, dto) ==
  /\ Free(createCalls[c])
  /\ LowerBusy(createCalls, c)
  /\ Cardinality(quizRows) < MaxQuizRows
  /\ createCalls' = [createCalls EXCEPT ![c] = [pc |-> "draw", pin |-> "none", dto |-> dto]]
  /\ UNCHANGED <<storeVars, serviceVars, gatewayVars, quizRows>>

\* One turn of generateUniquePin's loop (lines 35-41): a PIN is drawn and
\* findOne looks for a quiz with it; the loop ends when there is none.
CreateDraw(c, pin) ==
  /\ createCalls[c].pc = "draw"
  /\ createCalls' = [createCalls EXCEPT ![c] =
       IF PinTaken(pin) THEN createCalls[c]
       ELSE [pc |-> "quiz", pin |-> pin, dto |-> createCalls[c].dto]]
  /\ UNCHANGED <<storeVars, serviceVars, gatewayVars, quizRows>>

\* The id @BeforeInsert generates for the quiz: one no row has.
FreshQuizRowId ==
  CHOOSE id \in 1 .. (Cardinality(quizRows) + 1) : \A row \in quizRows : row.id # id

\* A save that would not meet the unique column: what C31 rules out.
UniquePinCheck_None(pin) == "ok"

\* The unique column of Quiz.pin: the insert of a second quiz with the PIN
\* fails in the store.
UniquePinCheck(pin) == IF PinTaken(pin) THEN "StoreError" ELSE "ok"

\* quizRepository.save(quiz) (line 57).
CreateSaveQuiz(c) ==
  /\ createCalls[c].pc = "quiz"
  /\ LET call == createCalls[c]
     IN IF UniquePinCheck(call.pin) = "ok"
        THEN /\ quizRows' = quizRows \cup
                  {[id |-> FreshQuizRowId, pin |-> call.pin, questions |-> <<>>]}
             /\ createCalls' = [createCalls EXCEPT ![c] =
                  [pc |-> "question", pin |-> call.pin, dto |-> call.dto,
                   quizId |-> FreshQuizRowId]]
        ELSE /\ createCalls' = [createCalls EXCEPT ![c] = CreateDone(call, "StoreError")]
             /\ UNCHANGED quizRows
  /\ UNCHANGED <<storeVars, serviceVars, gatewayVars>>

\* The call's quiz row with its questions changed.
WithQuestions(call, questions) ==
  { IF row.id = call.quizId THEN [row EXCEPT !.questions = questions] ELSE row :
      row \in quizRows }
QuestionsOf(call) == (CHOOSE row \in quizRows : row.id = call.quizId).questions

\* questionRepository.save(question) (line 68): the question is stored
\* with no options and no correct option yet.
CreateSaveQuestion(c) ==
  /\ createCalls[c].pc = "question"
  /\ LET call == createCalls[c]
     IN /\ quizRows' = WithQuestions(call,
             Append(QuestionsOf(call), [options |-> {}, correctAnswerId |-> NoOption]))
        /\ createCalls' = [createCalls EXCEPT ![c].pc = "options"]
  /\ UNCHANGED <<storeVars, serviceVars, gatewayVars>>

\* answerOptionRepository.save(options) (line 79), then the option whose
\* order is correctAnswerOrder is looked for: BadRequest when there is none
\* (lines 82-87).
CreateSaveOptions(c) ==
  /\ createCalls[c].pc = "options"
  /\ LET call == createCalls[c]
         qs == QuestionsOf(call)
         k == Len(qs)
     IN /\ quizRows' = WithQuestions(call, [qs EXCEPT ![k].options = DtoOptionOrders])
        /\ createCalls' = [createCalls EXCEPT ![c] =
             IF call.dto[k] \in DtoOptionOrders THEN [call EXCEPT !.pc = "correct"]
             ELSE CreateDone(call, "BadRequest")]
  /\ UNCHANGED <<storeVars, serviceVars, gatewayVars>>

\* questionRepository.save(savedQuestion) with its correctAnswerId (lines
\* 90-91); then the next question, or the quiz is read back (line 94).
CreateSaveCorrect(c) ==
  /\ createCalls[c].pc = "correct"
  /\ LET call == createCalls[c]
         qs == QuestionsOf(call)
         k == Len(qs)
     IN /\ quizRows' = WithQuestions(call, [qs EXCEPT ![k].correctAnswerId = call.dto[k]])
        /\ createCalls' = [createCalls EXCEPT ![c].pc =
             IF k < Len(call.dto) THEN "question" ELSE "reload"]
  /\ UNCHANGED <<storeVars, serviceVars, gatewayVars>>

\* findOne of the created quiz (lines 94-103); it is returned.
CreateReload(c) ==
  /\ createCalls[c].pc = "reload"
  /\ createCalls' = [createCalls EXCEPT ![c] = CreateDone(createCalls[c], "ok")]
  /\ UNCHANGED <<storeVars, serviceVars, gatewayVars, quizRows>>

CreateInit ==
  /\ status \in {"created", Removed}
  /\ participants = {}
  /\ answers = {}
  /\ questionTimeCache = NoCache
  /\ submitCalls = [c \in SubmitIds |-> Idle]
  /\ startQuizCalls = [c \in StartQuizIds |-> Idle]
  /\ finishQuizCalls = [c \in FinishQuizIds |-> Idle]
  /\ deleteQuizCalls = [c \in DeleteQuizIds |-> Idle]
  /\ joinCalls = [c \in JoinIds |-> Idle]
  /\ quizRows = {}
  /\ createCalls = [c \in CreateIds |-> Idle]
  /\ GatewayIdle

CreateNext ==
  \/ \E c \in CreateIds, dto \in CreateQuizDtos : CreateBegin(c, dto)
  \/ \E c \in CreateIds, pin \in CandidatePins : CreateDraw(c, pin)
  \/ \E c \in CreateIds : CreateSaveQuiz(c)
  \/ \E c \in CreateIds : CreateSaveQuestion(c)
  \/ \E c \in CreateIds : CreateSaveOptions(c)
  \/ \E c \in CreateIds : CreateSaveCorrect(c)
  \/ \E c \in CreateIds : CreateReload(c)

CreateSpec == CreateInit /\ [][CreateNext]_vars

\* C31: no two quizzes in the store have the same PIN (the quiz that
\* exists included), and a createQuiz that is about to save a PIN some quiz
\* has stores no quiz.
C31_PinUnique ==
  /\ [](/\ \A r1, r2 \in quizRows : r1.pin = r2.pin => r1 = r2
        /\ status # Removed => \A row \in quizRows : row.pin # Pin)
  /\ [][\A c \in CreateIds :
          (createCalls[c].pc = "quiz" /\ PinTaken(createCalls[c].pin)) =>
             (createCalls'[c] # createCalls[c] => quizRows' = quizRows)]_vars

\* Two calls drew the same PIN and found it free; one stored its quiz and
\* the other's save failed in the store.
C31_Witness ==
  \E c, d \in CreateIds :
    /\ createCalls[c].pc = "done"
    /\ createCalls[c].result = "StoreError"
    /\ createCalls[d].pc \notin {"idle", "draw", "quiz"}
    /\ createCalls[d].pin = createCalls[c].pin
    /\ \E row \in quizRows : row.pin = createCalls[c].pin

\* The createQuiz call that stored the row is still writing it.
BeingCreated(row) ==
  \E c \in CreateIds :
    /\ createCalls[c].pc \in {"question", "options", "correct", "reload"}
    /\ createCalls[c].quizId = row.id

\* C36: every quiz in the store that no createQuiz call is still writing
\* has at least one question, and each of its questions has a correct
\* option id that is one of its own options; and a createQuiz that ends
\* with an error has left no quiz row with its PIN.
C36_StoredQuizIsComplete ==
  /\ \A row \in quizRows :
       ~BeingCreated(row) =>
         /\ Len(row.questions) >= 1
         /\ \A k \in 1 .. Len(row.questions) :
              row.questions[k].correctAnswerId \in row.questions[k].options
  /\ \A c \in CreateIds :
       (createCalls[c].pc = "done" /\ createCalls[c].result = "BadRequest") =>
          \A row \in quizRows : row.pin # createCalls[c].pin

(***************************************************************************)
(* FailSpec: the submitAnswer calls of AnswerSpec over a store whose calls *)
(* can fail.  submitAnswer runs in no transaction and catches nothing      *)
(* (part_003 lines 321-400): a store call that throws ends the call with   *)
(* the store's error and what the call has written stays written.          *)
(***************************************************************************)
\* One of the awaited store calls of submitAnswer after its first read
\* throws: findOne question (336), findOne participant (345), findOne
\* answer (354), save answer (384), calculateTugPosition (387) or save
\* quiz (395).
SubmitStoreFails(c) ==
  /\ submitCalls[c].pc \in {"question", "participant", "existing", "save",
                            "tugParticipants", "tugAnswers", "finish"}
  /\ submitCalls' = [submitCalls EXCEPT ![c] =
       SubmitDone(submitCalls[c], "StoreError", FALSE)]
  /\ UNCHANGED <<storeVars, startQuizCalls, finishQuizCalls, deleteQuizCalls, joinCalls, gatewayVars, createVars>>

FailInit == AnswerInit

FailNext ==
  \/ AnswerNext
  \/ \E c \in SubmitIds : SubmitStoreFails(c)

FailSpec == FailInit /\ [][FailNext]_vars

\* No submitAnswer call is between its first read and its return.
SubmitAtRest == \A c \in SubmitIds : submitCalls[c].pc \in {"idle", "done"}

\* C32: when a store call of submitAnswer fails, no partial state remains:
\* once the calls have ended, every stored Answer has had the position
\* recomputed and the conditional finish applied, so a quiz whose stored
\* answers put the position at an end of the rope is finished.
C32_NoPartialState ==
  (SubmitAtRest /\ Dominated /\ \E c \in SubmitIds : submitCalls[c].pc = "done")
     => status = "finished"

\* C34: a manual start-question for an index above 0 succeeds only when
\* question index-1 has a recorded start time: a question whose
\* predecessor was never started is not started.
C34_PredecessorStarted ==
  [][(/\ StartQuestionEnds
      /\ startQuestionCalls'.success
      /\ startQuestionCalls.index > 0) =>
        questionStartTimes[startQuestionCalls.index - 1] # 0]_vars

(***************************************************************************)
(* ManualSpec: question rounds driven by the creator and by the timers.    *)
(* The quiz is started and the creator has started question 0: its start   *)
(* time is recorded, its timer is registered and pending and the three     *)
(* events are in the room.  The creator sends start-question requests and  *)
(* the timers fire.                                                        *)
(***************************************************************************)
\* The timer handleStartQuestion set for question 0 at time 1 (lines 524-531).
QuestionZeroTimer == [id |-> 1, questionIndex |-> 0, due |-> 1 + TimeSeconds + GraceSeconds]

ManualInit ==
  /\ StoreInit("started")
  /\ now = 1
  /\ clientData = JoinedClients
  /\ questionStartTimes = [i \in QuestionIds |-> IF i = 0 THEN 1 ELSE 0]
  /\ questionTimers = Registered(QuestionZeroTimer)
  /\ timeouts = {QuestionZeroTimer}
  /\ autoAdvanceCalls = {}
  /\ startQuestionCalls = Idle
  /\ finishQuestionCalls = Idle
  /\ finishQuizEvents = Idle
  /\ room = <<Event("start-question", "none", 0),
              Event("game-update", "started", 0),
              Event("question-started", "none", 0)>>
  /\ requests = 0

ManualNext ==
  \/ Tick
  \/ \E index \in QuestionIds : StartQuestionRead("creator", index)
  \/ StartQuestionReject
  \/ StartQuestionStart
  \/ \E t \in timeouts : TimerFire(t)
  \/ \E h \in autoAdvanceCalls : AutoAdvanceStep(h)

ManualSpec == ManualInit /\ [][ManualNext]_vars

\* The step is a successful manual start of a question above 0 while a
\* timer of its predecessor is scheduled and has not fired.
ManualStartOverPending ==
  /\ StartQuestionEnds
  /\ startQuestionCalls'.success
  /\ startQuestionCalls.index > 0
  /\ \E t \in timeouts : t.questionIndex = startQuestionCalls.index - 1

\* C33: when the creator starts question k+1 manually while a timer of
\* question k is pending, that timer is cancelled (it is scheduled no
\* longer and so never runs autoAdvance), and question k+1 is started once:
\* the step sends one start-question for k+1 and leaves one timer for k+1.
C33_ManualStartCancelsTimer ==
  [][ManualStartOverPending =>
       /\ \A t \in timeouts' : t.questionIndex # startQuestionCalls.index - 1
       /\ Cardinality({ t \in timeouts' : t.questionIndex = startQuestionCalls.index }) = 1
       /\ StartQuestionEffect(startQuestionCalls.index)]_vars

\* C35: the correctness flag of every stored Answer says whether its
\* selected option is the correct option of its question, and the selected
\* option is one of that question's options.
C35_AnswerFlagAndOption ==
  \A a \in answers :
     /\ a.isCorrect = (a.selectedOptionId = correctAnswerId(a.questionId))
     /\ a.selectedOptionId \in Options(a.questionId)

\* C35 witness: submitAnswer calls have stored a correct and a wrong Answer
\* for the first question.
C35_Witness ==
  /\ \E c \in SubmitIds : submitCalls[c].pc = "done" /\ submitCalls[c].result = "ok"
  /\ \E a, b \in answers \ {FirstAnswer} :
       /\ a.questionId = 0 /\ b.questionId = 0
       /\ a.isCorrect /\ a.selectedOptionId = correctAnswerId(0)
       /\ ~b.isCorrect /\ b.selectedOptionId \in Options(0)

(***************************************************************************)
(* CrossSpec: submitAnswer calls of the quiz's participants, under the     *)
(* quiz's PIN, for the quiz's first question or for a question of another  *)
(* quiz, with an option of either question and an immediate response.      *)
(***************************************************************************)
CrossInit == AnswerInit

CrossNext ==
  \/ \E c \in SubmitIds, q \in {0, ForeignQuestion}, p \in ParticipantIds :
       SubmitReadQuiz(c, Pin, q, p)
  \/ \E c \in SubmitIds : SubmitReadQuestion(c)
  \/ \E c \in SubmitIds : SubmitReadParticipant(c)
  \/ \E c \in SubmitIds, sel \in Options(0) \cup Options(ForeignQuestion) :
       SubmitReadExisting(c, sel, 0)
  \/ \E c \in SubmitIds : SubmitSave(c)
  \/ \E c \in SubmitIds : SubmitTugParticipants(c)
  \/ \E c \in SubmitIds : SubmitTugAnswers(c)
  \/ \E c \in SubmitIds : SubmitFinish(c)

CrossSpec == CrossInit /\ [][CrossNext]_vars

\* C38: every stored Answer links a participant and a question of the same
\* quiz, so no answer to another quiz's question is among the answers of
\* the quiz's participants, from which its team scores are computed.
C38_AnswerWithinOneQuiz ==
  \A a \in answers : \A r \in participants :
     r.id = a.participantId => QuizOfQuestion(a.questionId) = r.quizId

(***************************************************************************)
(* LateJoinSpec: joinQuiz calls while the creator finishes the quiz over   *)
(* HTTP.  The quiz is created or started, with the first participant       *)
(* joined.                                                                 *)
(***************************************************************************)
LateJoinInit ==
  /\ JoinInit
  /\ status \in {"created", "started"}

LateJoinNext ==
  \/ JoinNext
  \/ \E c \in FinishQuizIds : FinishQuizRead(c, QuizId, Creator)
  \/ \E c \in FinishQuizIds : FinishQuizSave(c)

LateJoinSpec == LateJoinInit /\ [][LateJoinNext]_vars

\* C37: joinQuiz adds no participant to a finished quiz: a call that reads
\* the quiz as finished fails and stores nothing, a call for a free name
\* that reads it as created or started goes on, and no participant row is
\* stored while the quiz is finished, also when the finish came between
\* the steps of the join.
C37_NoJoinAfterFinish ==
  [][/\ \A c \in JoinIds :
          (Free(joinCalls[c]) /\ joinCalls'[c] # joinCalls[c] /\ joinCalls'[c].pin = Pin) =>
             IF status = "finished"
             THEN joinCalls'[c].pc = "done" /\ joinCalls'[c].result = "InvalidState"
             ELSE joinCalls'[c].pc = "existing"
     /\ status = "finished" => participants' = participants]_vars

\* C39: while the quiz is finished no step sends start-question to its
\* room, records a question start time or schedules a timer, also when the
\* step belongs to a handler that read the quiz as started before the
\* finish was written.
C39_NothingStartsAfterFinish ==
  [][status = "finished" =>
       /\ \A i \in (Len(room) + 1) .. Len(room') : room'[i].type # "start-question"
       /\ \A i \in QuestionIds : questionStartTimes'[i] \in {questionStartTimes[i], 0}
       /\ timeouts' \subseteq timeouts
       /\ questionTimers' \in {questionTimers, NoTimer}]_vars

\* C40: question-finished goes to the quiz's room only on a finish-question
\* of a connection whose stored user id is the creator's, and only such a
\* request finishes the quiz: a connection tagged teacher under another
\* user id causes neither.
C40_OnlyCreatorFinishesQuestion ==
  [][/\ (/\ finishQuestionCalls.pc = "act"
         /\ Len(room') > Len(room)
         /\ room'[Len(room) + 1].type = "question-finished") =>
           finishQuestionCalls.userId = Creator
     /\ (finishQuestionCalls.pc = "finish" /\ status' # status) =>
           finishQuestionCalls.userId = Creator]_vars

====
